---- MODULE Spec2Model ----
(***************************************************************************)
(* A model of the byteforge containers.                                    *)
(*                                                                         *)
(* Part 1: InternalRingBuffer (internal/datastructs/buffers/ring/ring.go). *)
(* Backing arrays live in a heap of slices, so that aliasing between a     *)
(* buffer, its clone and a slice handed to the caller is something the     *)
(* model can get wrong.  A Go slice index i is the TLA+ index i + 1.       *)
(* Element values are the positive integers in the order the caller        *)
(* supplied them (the code never inspects a T); 0 is the zero value of T.  *)
(***************************************************************************)
EXTENDS Integers, Sequences, FiniteSets, TLC

\* ---------------------------------------------------------------- bounds
\* Largest capacity argument passed to New / FromSlice (smallest is -1).
MaxCapArg == 9
\* Longest source slice passed to FromSlice.
MaxSliceLen == 10
\* Most values passed to one Enqueue call.
MaxBatch == 9
\* Most values a run hands to the buffers (source slice and Enqueue calls).
MaxVal == 10
\* Most calls a run makes on its buffers once it holds a clone.
MaxCloneCalls == 1

\* ------------------------------------------------------------- constants
\* ring.go:23 (New) and ring.go:38 (FromSlice): the default capacity.
DefaultCapacity == 8

VARIABLES
    heap,      \* address -> backing array (only reachable arrays are kept)
    buf,       \* buffer slot -> InternalRingBuffer struct (data is an address)
    snap,      \* address of the slice ToSlice just returned, 0 if none
    fifo,      \* buffer slot -> the abstract FIFO contents its contract gives
    next,      \* the next fresh value a caller will enqueue
    last,      \* the last call: its name, receiver, arguments and results
    panicked,  \* a run-time panic (index out of range) has ended the program
    origin,    \* the constructor that made buffer 1: "New" or "FromSlice"
    calls,     \* the calls made on the buffers since the first Clone returned
    mu,        \* instance -> its sync.RWMutex (no instance is wrapped in part 1)
    gr,        \* goroutine -> the call it is in (no goroutine runs in part 1)
    set,       \* instance -> the items of its Set (no Set exists in part 1)
    par        \* the parallel slice function in progress (none in parts 1 to 4)

vars == <<heap, buf, snap, fifo, next, last, panicked, origin, calls, mu, gr, set, par>>

\* The variables of the concurrent wrappers and of the sets.
syncVars == <<mu, gr, set, par>>

\* A single-threaded program with plain buffers only.
Sequential == mu = <<>> /\ gr = <<>> /\ set = <<>> /\ par = <<>>

\* Buffer slots: 1 is the constructed buffer, 2 holds the latest clone.
Bufs == {1, 2}

\* A slot holding no buffer (a nil *InternalRingBuffer).
NilBuf == [data |-> 0, head |-> 0, tail |-> 0, size |-> 0, capacity |-> 0]

\* The optional capacity argument (capacity ...int): no or one value.
CapArgs == {<<>>} \cup {<<c>> : c \in (-1)..MaxCapArg}

\* make([]T, n)
MakeSlice(n) == [i \in 1..n |-> 0]

\* The smallest address no array of h lives at.
Alloc(h) == CHOOSE a \in 1..(Cardinality(DOMAIN h) + 1) :
                a \notin DOMAIN h /\ \A x \in 1..(a - 1) : x \in DOMAIN h

\* h with array arr stored at the fresh address a.
Store(h, a, arr) == (a :> arr) @@ h

\* Garbage collection: only the arrays some root refers to are kept.
Collect(h, roots) == [a \in (DOMAIN h) \cap roots |-> h[a]]

Roots(bs, sn) == ({bs[b].data : b \in Bufs} \cup {sn}) \ {0}

\* ------------------------------------------------------------ ring.go
\* New (ring.go:22-32): the struct and its backing array.
NewCap(capacity) ==
    IF Len(capacity) > 0 /\ capacity[1] > 0 THEN capacity[1] ELSE DefaultCapacity

New(capacity) ==
    [arr |-> MakeSlice(NewCap(capacity)),
     rb  |-> [data |-> 1, head |-> 0, tail |-> 0, size |-> 0,
              capacity |-> NewCap(capacity)]]

\* FromSlice (ring.go:37-63).
FromSliceCap(s, capacity) ==
    IF Len(capacity) > 0 /\ capacity[1] > DefaultCapacity THEN capacity[1]
    ELSE IF Len(s) > 0 THEN Len(s)
    ELSE DefaultCapacity

FromSlice(s, capacity) ==
    LET desiredCapacity == FromSliceCap(s, capacity)
        data == IF desiredCapacity > Len(s)
                THEN [i \in 1..desiredCapacity |-> IF i <= Len(s) THEN s[i] ELSE 0]
                ELSE s
    IN  [arr |-> data,
         rb  |-> [data |-> 1, head |-> 0, tail |-> Len(s), size |-> Len(s),
                  capacity |-> desiredCapacity]]

\* Len, Cap, IsEmpty (ring.go:66-78).
LenOf(r) == r.size
CapOf(r) == r.capacity
IsEmpty(r) == r.size = 0

\* The source index of logical element i (ring.go:140, 150, 167).
Slot(r, i) == (r.head + i) % r.capacity

\* A resize that copies slots 0..size-1 as they lie, not from head on.
resizeNoUnwrap(h, r, newCap) ==
    LET old == h[r.data]
        newData == [i \in 1..newCap |->
                        IF i - 1 < r.size /\ i <= Len(old) THEN old[i] ELSE 0]
        a == Alloc(h)
    IN  [h |-> Store(h, a, newData),
         r |-> [data |-> a, head |-> 0, tail |-> r.size, size |-> r.size,
                capacity |-> newCap],
         panic |-> FALSE]

\* A resize that leaves head where it was.
resizeKeepsHead(h, r, newCap) ==
    LET old == h[r.data]
        newData == [i \in 1..newCap |->
                        IF i - 1 < r.size THEN old[Slot(r, i - 1) + 1] ELSE 0]
        a == Alloc(h)
    IN  [h |-> Store(h, a, newData),
         r |-> [data |-> a, head |-> r.head, tail |-> r.size, size |-> r.size,
                capacity |-> newCap],
         panic |-> FALSE]

\* resize (ring.go:164-174).  An index out of range panics before the
\* struct is assigned, which leaves the buffer as it was.
resize(h, r, newCap) ==
    LET old == h[r.data]
        bad == \E i \in 0..(r.size - 1) : i >= newCap \/ Slot(r, i) >= Len(old)
        newData == [i \in 1..newCap |->
                        IF i - 1 < r.size THEN old[Slot(r, i - 1) + 1] ELSE 0]
        a == Alloc(h)
    IN  IF bad THEN [h |-> h, r |-> r, panic |-> TRUE]
        ELSE [h |-> Store(h, a, newData),
              r |-> [data |-> a, head |-> 0, tail |-> r.size, size |-> r.size,
                     capacity |-> newCap],
              panic |-> FALSE]

\* The doubling loop of Enqueue (ring.go:85-88).
RECURSIVE Doubled(_, _)
Doubled(newCap, required) ==
    IF newCap < required THEN Doubled(newCap * 2, required) ELSE newCap

\* A growth that doubles once, whatever is required.
GrowCapOnce(capacity, required) == capacity * 2

GrowCap(capacity, required) == Doubled(capacity * 2, required)

\* An Enqueue that resizes as soon as the values fill the buffer.
NeedsGrowWhenFull(r, n) == r.size + n >= r.capacity

\* Whether Enqueue resizes (ring.go:84).
NeedsGrow(r, n) == r.size + n > r.capacity

\* The write loop of Enqueue (ring.go:93-97).
RECURSIVE EnqueueLoop(_, _, _)
EnqueueLoop(h, r, values) ==
    IF values = <<>> THEN [h |-> h, r |-> r, panic |-> FALSE]
    ELSE IF r.tail >= Len(h[r.data]) THEN [h |-> h, r |-> r, panic |-> TRUE]
    ELSE EnqueueLoop([h EXCEPT ![r.data][r.tail + 1] = Head(values)],
                     [r EXCEPT !.tail = (r.tail + 1) % r.capacity,
                               !.size = r.size + 1],
                     Tail(values))

\* Enqueue (ring.go:82-98).
EnqueueOp(h, r, values) ==
    LET required == r.size + Len(values)
        grown == IF NeedsGrow(r, Len(values))
                 THEN resize(h, r, GrowCap(r.capacity, required))
                 ELSE [h |-> h, r |-> r, panic |-> FALSE]
    IN  IF grown.panic THEN grown ELSE EnqueueLoop(grown.h, grown.r, values)

\* A shrink test at half occupancy instead of a quarter.
NeedsShrinkAtHalf(r) == r.capacity > 1 /\ r.size <= r.capacity \div 2

\* Whether Dequeue shrinks, on the struct after the removal (ring.go:113).
NeedsShrink(r) == r.capacity > 1 /\ r.size <= r.capacity \div 4

\* A Dequeue that runs its shrink test before it looks whether it is empty.
DequeueShrinkFirst(h, r) ==
    IF r.size = 0
    THEN LET shrunk == IF r.capacity > 1 THEN resize(h, r, r.capacity \div 2)
                       ELSE [h |-> h, r |-> r, panic |-> FALSE]
         IN  [h |-> shrunk.h, r |-> shrunk.r, val |-> 0, ok |-> FALSE,
              panic |-> shrunk.panic]
    ELSE LET val == h[r.data][r.head + 1]
             r1 == [r EXCEPT !.head = (r.head + 1) % r.capacity,
                             !.size = r.size - 1]
             shrunk == IF r1.capacity > 1 /\ r1.size <= r1.capacity \div 4
                       THEN resize(h, r1, r1.capacity \div 2)
                       ELSE [h |-> h, r |-> r1, panic |-> FALSE]
         IN  [h |-> shrunk.h, r |-> shrunk.r, val |-> val, ok |-> ~shrunk.panic,
              panic |-> shrunk.panic]

\* Dequeue (ring.go:103-118).
DequeueOp(h, r) ==
    IF r.size = 0 THEN [h |-> h, r |-> r, val |-> 0, ok |-> FALSE, panic |-> FALSE]
    ELSE IF r.head >= Len(h[r.data])
    THEN [h |-> h, r |-> r, val |-> 0, ok |-> FALSE, panic |-> TRUE]
    ELSE LET val == h[r.data][r.head + 1]
             r1 == [r EXCEPT !.head = (r.head + 1) % r.capacity,
                             !.size = r.size - 1]
             shrunk == IF NeedsShrink(r1) THEN resize(h, r1, r1.capacity \div 2)
                       ELSE [h |-> h, r |-> r1, panic |-> FALSE]
         IN  [h |-> shrunk.h, r |-> shrunk.r, val |-> val, ok |-> ~shrunk.panic,
              panic |-> shrunk.panic]

\* Peek (ring.go:122-129).
PeekOp(h, r) ==
    IF r.size = 0 THEN [val |-> 0, ok |-> FALSE, panic |-> FALSE]
    ELSE IF r.head >= Len(h[r.data]) THEN [val |-> 0, ok |-> FALSE, panic |-> TRUE]
    ELSE [val |-> h[r.data][r.head + 1], ok |-> TRUE, panic |-> FALSE]

\* A ToSlice that hands out the backing array itself.
ToSliceAlias(h, r) == [h |-> h, addr |-> r.data, panic |-> FALSE]

\* ToSlice (ring.go:133-144): the address of the slice it returns.
ToSliceOp(h, r) ==
    LET old == h[r.data]
        bad == \E i \in 0..(r.size - 1) : Slot(r, i) >= Len(old)
        result == [i \in 1..r.size |-> old[Slot(r, i - 1) + 1]]
        a == Alloc(h)
    IN  IF bad THEN [h |-> h, addr |-> 0, panic |-> TRUE]
        ELSE [h |-> Store(h, a, result), addr |-> a, panic |-> FALSE]

\* Clone (ring.go:147-160).
CloneOp(h, r) ==
    LET old == h[r.data]
        bad == \E i \in 0..(r.size - 1) : i >= r.capacity \/ Slot(r, i) >= Len(old)
        newData == [i \in 1..r.capacity |->
                        IF i - 1 < r.size THEN old[Slot(r, i - 1) + 1] ELSE 0]
        a == Alloc(h)
    IN  IF bad THEN [h |-> h, r |-> NilBuf, panic |-> TRUE]
        ELSE [h |-> Store(h, a, newData),
              r |-> [data |-> a, head |-> 0, tail |-> r.size, size |-> r.size,
                     capacity |-> r.capacity],
              panic |-> FALSE]

\* -------------------------------------------------------------- the calls
\* The values first .. first + n - 1, in order.
Fresh(first, n) == [i \in 1..n |-> first + i - 1]

\* The record of a call: receiver b, n values passed, results (val, ok), the
\* receiver's Len and Cap before the call, and a constructor's capacity
\* argument.
Call(op, b, n, val, ok) ==
    [op |-> op, b |-> b, n |-> n, val |-> val, ok |-> ok,
     oldSize |-> buf[b].size, oldCap |-> buf[b].capacity, capacity |-> <<>>]

Exists(b) == buf[b].data # 0

\* The caller may make another call on buffer b.
MayCall(b) == ~panicked /\ Exists(b) /\ calls < MaxCloneCalls

\* The call count after one more call; counting starts with the first clone.
Counted == IF Exists(2) THEN calls + 1 ELSE 0

\* The state after the constructor fn(s, capacity...) returned made.
InitWith(fn, s, capacity, made) ==
    /\ heap = (1 :> made.arr)
    /\ buf = [b \in Bufs |-> IF b = 1 THEN made.rb ELSE NilBuf]
    /\ snap = 0
    /\ panicked = FALSE
    /\ origin = fn
    /\ calls = 0
    /\ Sequential
    /\ fifo = [b \in Bufs |-> IF b = 1 THEN s ELSE <<>>]
    /\ next = Len(s) + 1
    /\ last = [op |-> fn, b |-> 1, n |-> Len(s), val |-> 0, ok |-> TRUE,
               oldSize |-> 0, oldCap |-> 0, capacity |-> capacity]

InitNew ==
    \E capacity \in CapArgs : InitWith("New", <<>>, capacity, New(capacity))

InitFromSlice ==
    \E n \in 0..MaxSliceLen, capacity \in CapArgs :
        InitWith("FromSlice", Fresh(1, n), capacity, FromSlice(Fresh(1, n), capacity))

RingInit == InitNew \/ InitFromSlice

\* rb.Enqueue(values...) with n fresh values.
Enqueue(b, n) ==
    /\ MayCall(b)
    /\ calls' = Counted
    /\ next + n - 1 <= MaxVal
    /\ LET values == Fresh(next, n)
           res == EnqueueOp(heap, buf[b], values)
           bs == [buf EXCEPT ![b] = res.r]
       IN  /\ buf' = bs
           /\ heap' = Collect(res.h, Roots(bs, 0))
           /\ panicked' = res.panic
           /\ fifo' = [fifo EXCEPT ![b] = fifo[b] \o values]
           /\ next' = next + n
           /\ last' = Call("Enqueue", b, n, 0, ~res.panic)
    /\ snap' = 0
    /\ UNCHANGED <<origin, mu, gr, set, par>>

\* rb.Dequeue()
Dequeue(b) ==
    /\ MayCall(b)
    /\ calls' = Counted
    /\ LET res == DequeueOp(heap, buf[b])
           bs == [buf EXCEPT ![b] = res.r]
       IN  /\ buf' = bs
           /\ heap' = Collect(res.h, Roots(bs, 0))
           /\ panicked' = res.panic
           /\ last' = Call("Dequeue", b, 0, res.val, res.ok)
    /\ fifo' = [fifo EXCEPT ![b] = IF fifo[b] = <<>> THEN <<>> ELSE Tail(fifo[b])]
    /\ snap' = 0
    /\ UNCHANGED <<next, origin, mu, gr, set, par>>

\* rb.Peek()
Peek(b) ==
    /\ MayCall(b)
    /\ calls' = Counted
    /\ LET res == PeekOp(heap, buf[b])
       IN  /\ panicked' = res.panic
           /\ last' = Call("Peek", b, 0, res.val, res.ok)
    /\ heap' = Collect(heap, Roots(buf, 0))
    /\ snap' = 0
    /\ UNCHANGED <<buf, fifo, next, origin, mu, gr, set, par>>

\* rb.ToSlice().  The caller holds the slice until its next call on a buffer.
ToSlice(b) ==
    /\ MayCall(b)
    /\ calls' = Counted
    /\ LET res == ToSliceOp(heap, buf[b])
       IN  /\ snap' = res.addr
           /\ heap' = Collect(res.h, Roots(buf, res.addr))
           /\ panicked' = res.panic
           /\ last' = Call("ToSlice", b, 0, 0, ~res.panic)
    /\ UNCHANGED <<buf, fifo, next, origin, mu, gr, set, par>>

\* The caller writes the zero value into element i of the slice ToSlice
\* returned, and then lets go of the slice.
WriteSlice(i) ==
    /\ ~panicked /\ snap # 0
    /\ i < Len(heap[snap])
    /\ heap' = Collect([heap EXCEPT ![snap][i + 1] = 0], Roots(buf, 0))
    /\ snap' = 0
    /\ last' = Call("WriteSlice", last.b, 0, 0, TRUE)
    /\ UNCHANGED <<buf, fifo, next, panicked, origin, calls, mu, gr, set, par>>

\* rb.Clone(); the clone is kept in slot 2, replacing an earlier clone.
Clone(b) ==
    /\ MayCall(b)
    /\ calls' = Counted
    /\ LET res == CloneOp(heap, buf[b])
           bs == [buf EXCEPT ![2] = res.r]
       IN  /\ buf' = bs
           /\ heap' = Collect(res.h, Roots(bs, 0))
           /\ panicked' = res.panic
           /\ last' = Call("Clone", b, 0, 0, ~res.panic)
    /\ fifo' = [fifo EXCEPT ![2] = fifo[b]]
    /\ snap' = 0
    /\ UNCHANGED <<next, origin, mu, gr, set, par>>

RingNext ==
    \/ \E b \in Bufs, n \in 0..MaxBatch : Enqueue(b, n)
    \/ \E b \in Bufs : Dequeue(b)
    \/ \E b \in Bufs : Peek(b)
    \/ \E b \in Bufs : ToSlice(b)
    \/ \E i \in 0..MaxVal : WriteSlice(i)
    \/ \E b \in Bufs : Clone(b)

SpecRing == RingInit /\ [][RingNext]_vars

\* ------------------------------------------------- what the claims speak of
\* The contents of slots head, head+1, ..., head+size-1 modulo capacity.
Live(h, r) == [i \in 1..r.size |-> h[r.data][Slot(r, i - 1) + 1]]

\* The slice rb.ToSlice() returns.
SliceOf(h, r) == LET res == ToSliceOp(h, r) IN res.h[res.addr]

\* The values successive rb.Dequeue() calls return until one fails.
RECURSIVE Drain(_, _)
Drain(h, r) ==
    IF r.size <= 0 THEN <<>>
    ELSE LET d == DequeueOp(h, r)
         IN  IF d.ok THEN <<d.val>> \o Drain(d.h, d.r) ELSE <<>>

\* c2 is c doubled one or more times.
RECURSIVE IsPowerOfTwo(_)
IsPowerOfTwo(m) == m = 1 \/ (m > 1 /\ m % 2 = 0 /\ IsPowerOfTwo(m \div 2))

DoubledFrom(c, c2) == c2 > c /\ c2 % c = 0 /\ IsPowerOfTwo(c2 \div c)

Max(a, b) == IF a >= b THEN a ELSE b

\* The array and struct of buffer b are the same before and after a step.
Untouched(b) ==
    /\ buf'[b] = buf[b]
    /\ Exists(b) => heap'[buf[b].data] = heap[buf[b].data]

\* ------------------------------------------------------------------ C1
\* What a Dequeue step on the New buffer returns.
C1_FifoStep ==
    (origin = "New" /\ last'.op = "Dequeue" /\ last'.b = 1) =>
        IF fifo[1] = <<>> THEN ~last'.ok
        ELSE last'.ok /\ last'.val = Head(fifo[1])

\* C1: on a buffer made by New, every Dequeue returns the head of the
\* abstract FIFO of the values enqueued so far (and fails exactly when that
\* FIFO is empty), no call on it panics, and the slots head..head+size-1 hold
\* that FIFO in order, through growth, shrink and wraparound.
C1_Fifo ==
    /\ [](origin = "New" =>
              /\ ~(panicked /\ last.b = 1)
              /\ Live(heap, buf[1]) = fifo[1])
    /\ [][C1_FifoStep]_vars

\* A Dequeue succeeded on a New buffer that has grown past every capacity New
\* was given and is physically wrapped.
C1_Witness ==
    /\ origin = "New" /\ last.op = "Dequeue" /\ last.b = 1 /\ last.ok
    /\ buf[1].capacity > MaxCapArg /\ buf[1].capacity > DefaultCapacity
    /\ buf[1].size > 0 /\ buf[1].tail < buf[1].head

\* ------------------------------------------------------------------ C2
\* C2: in every reachable state every buffer has 0 <= size <= capacity and
\* its elements are the slots head..head+size-1 modulo capacity.
C2_SizeWithinCapacity ==
    \A b \in Bufs :
        (Exists(b) /\ ~panicked) =>
            /\ 0 <= buf[b].size /\ buf[b].size <= buf[b].capacity
            /\ Live(heap, buf[b]) = fifo[b]

\* ------------------------------------------------------------------ C3
\* C3: no call on a buffer panics with an index out of range.
C3_NoPanic == ~panicked

\* ------------------------------------------------------------------ C4
\* What an Enqueue step does to the capacity and to the stored elements.
C4_EnqueueStep ==
    last'.op = "Enqueue" =>
        LET b == last'.b
            required == buf[b].size + last'.n
            cap == buf[b].capacity
            cap2 == buf'[b].capacity
        IN  /\ required <= cap => cap2 = cap
            /\ required > cap =>
                   /\ DoubledFrom(cap, cap2)
                   /\ cap2 >= required
                   /\ cap2 = 2 * cap \/ cap2 \div 2 < required
            /\ SubSeq(Live(heap', buf'[b]), 1, buf[b].size) = Live(heap, buf[b])
            /\ (buf[b].size = 0 /\ cap = 8 /\ last'.n = 9) => cap2 = 16
            /\ (buf[b].size = 0 /\ cap = 3 /\ last'.n = 5) => cap2 = 6

\* C4: Enqueue(values...) changes the capacity only when size + len(values)
\* exceeds it, and then to the old capacity doubled the fewest times (at
\* least once) that make it hold size + len(values); the elements already
\* stored keep their order.  9 values into an empty capacity-8 buffer give
\* capacity 16, 5 values into an empty capacity-3 buffer give capacity 6.
C4_Growth == [][C4_EnqueueStep]_vars

\* Nine values went into an empty default-capacity buffer in one call.
C4_Witness ==
    /\ origin = "New" /\ last.op = "Enqueue" /\ last.b = 1
    /\ last.oldCap = DefaultCapacity /\ last.oldSize = 0 /\ last.n = 9
    /\ buf[1].capacity = 16 /\ buf[1].size = 9

\* ------------------------------------------------------------------ C5
\* C5: a successful Dequeue halves the capacity exactly when, after the
\* removal, capacity > 1 and size <= capacity / 4, and else leaves it; a
\* capacity-16 buffer is halved, to 8, by the Dequeue that brings its size
\* to 4 and by none that leaves more.
C5_Shrink ==
    (last.op = "Dequeue" /\ last.ok) =>
        LET cap == last.oldCap
            left == last.oldSize - 1
            cap2 == buf[last.b].capacity
        IN  /\ buf[last.b].size = left
            /\ cap2 = IF cap > 1 /\ left <= cap \div 4 THEN cap \div 2 ELSE cap
            /\ (cap = 16 /\ left = 4) => cap2 = 8
            /\ (cap = 16 /\ left > 4) => cap2 = 16

\* The Dequeue that took a capacity-16 buffer from size 5 to size 4.
C5_Witness ==
    /\ last.op = "Dequeue" /\ last.ok
    /\ last.oldCap = 16 /\ last.oldSize = 5 /\ buf[last.b].capacity = 8

\* ------------------------------------------------------------------ C6
\* C6: FromSlice(s, c) has Len() = len(s) and, for a capacity c given with a
\* non-empty slice, Cap() = max(c, len(s)).
C6_FromSliceCap ==
    last.op = "FromSlice" =>
        /\ LenOf(buf[1]) = last.n
        /\ (Len(last.capacity) > 0 /\ last.capacity[1] > 0 /\ last.n > 0) =>
               CapOf(buf[1]) = Max(last.capacity[1], last.n)

\* ------------------------------------------------------------------ C7
\* C7: FromSlice(s, capacity).ToSlice() is s, and successive Dequeue calls on
\* the new buffer return s[0], s[1], ... in order.
C7_FromSliceRoundTrip ==
    last.op = "FromSlice" =>
        /\ SliceOf(heap, buf[1]) = fifo[1]
        /\ Drain(heap, buf[1]) = fifo[1]

\* ------------------------------------------------------------------ C8
\* What a Dequeue or Peek step on an empty buffer returns and changes.
C8_EmptyStep ==
    (last'.op \in {"Dequeue", "Peek"} /\ buf[last'.b].size = 0) =>
        /\ last'.val = 0 /\ ~last'.ok /\ ~panicked'
        /\ Untouched(last'.b)

\* C8: Dequeue and Peek on an empty buffer return (zero, false) and leave
\* the struct (head, tail, size, capacity) and the array as they were.
C8_EmptyRead == [][C8_EmptyStep]_vars

\* A Dequeue failed on an empty buffer whose capacity the shrink test would
\* have halved.
C8_Witness ==
    /\ last.op = "Dequeue" /\ ~last.ok /\ ~panicked
    /\ last.oldSize = 0 /\ last.oldCap > 1 /\ buf[last.b].capacity = last.oldCap

\* ------------------------------------------------------------------ C9
\* What Peek and ToSlice returned.
C9_ReadResult ==
    /\ last.op = "Peek" =>
           LET d == DequeueOp(heap, buf[last.b])
           IN  last.val = d.val /\ last.ok = d.ok
    /\ last.op = "ToSlice" =>
           /\ last.ok /\ snap # 0
           /\ heap[snap] = Live(heap, buf[last.b])
           /\ heap[snap] = Drain(heap, buf[last.b])

\* What a read, or a write into the returned slice, changes.
C9_ReadStep ==
    last'.op \in {"Peek", "ToSlice", "WriteSlice"} => \A b \in Bufs : Untouched(b)

\* C9: Peek returns what the next Dequeue returns, ToSlice returns the slots
\* head..head+size-1, which are the values the next Dequeues return, in
\* order; Peek, ToSlice and a write into the slice ToSlice returned leave
\* every buffer's struct and array unchanged.
C9_PureReads == []C9_ReadResult /\ [][C9_ReadStep]_vars

\* The caller wrote into the slice ToSlice returned for a buffer whose head
\* has moved off slot 0.
C9_Witness ==
    /\ last.op = "WriteSlice"
    /\ buf[last.b].head > 0 /\ buf[last.b].size > 1

\* ----------------------------------------------------------------- C10
\* What Clone returned.
C10_CloneResult ==
    last.op = "Clone" =>
        /\ last.ok /\ Exists(2)
        /\ LenOf(buf[2]) = last.oldSize /\ CapOf(buf[2]) = last.oldCap
        /\ SliceOf(heap, buf[2]) = SliceOf(heap, buf[last.b])
        /\ buf[2].head = 0 /\ buf[2].tail = buf[2].size

\* What a call on one of the two buffers changes of the other.
C10_IndependentStep ==
    \A b \in Bufs :
        (Exists(1) /\ Exists(2) /\ last'.b = b
         /\ last'.op \in {"Enqueue", "Dequeue"}) => Untouched(3 - b)

\* C10: Clone() returns a buffer with the Len, Cap and ToSlice of its source,
\* stored with head = 0 and tail = size, and a later call on one of the two
\* leaves the other's struct and array unchanged.
C10_Clone == []C10_CloneResult /\ [][C10_IndependentStep]_vars

(***************************************************************************)
(* Part 2: Queue (package queue), a facade over InternalRingBuffer that    *)
(* adds Equals.  Two queues are built independently from slices that start *)
(* with the same values, so that two different histories can arrive at the *)
(* same contents: a queue always holds a run lo..hi of the integers, and   *)
(* Enqueue continues the run (it restarts at 1 on an empty queue).         *)
(***************************************************************************)

\* Most calls a run makes on its two queues.
MaxQueueCalls == 2
\* Most values passed to one Queue.Enqueue call.
MaxQueueBatch == 2

\* The capacity arguments the two queues are built with.
QueueCapArgs == {<<>>, <<1>>, <<MaxCapArg>>}

\* slices.Equal(s1, s2)
slicesEqual(s1, s2) ==
    /\ Len(s1) = Len(s2)
    /\ \A i \in 1..Len(s1) : s1[i] = s2[i]

\* q.Equals(other) on the buffers of the two queues.
QueueEqualsOp(h, q, other) ==
    LET s1 == ToSliceOp(h, q)
        s2 == ToSliceOp(s1.h, other)
    IN  IF s1.panic \/ s2.panic THEN [ok |-> FALSE, panic |-> TRUE]
        ELSE [ok |-> slicesEqual(s1.h[s1.addr], s2.h[s2.addr]), panic |-> FALSE]

\* queue.New(capacity...) or queue.FromSlice(s, capacity...)
QueueMake(s, capacity, fromSlice) ==
    IF fromSlice THEN FromSlice(s, capacity) ELSE New(capacity)

\* The record of a call on queue a: the other operand b of Equals, n values
\* passed, and the result.
QueueCall(op, a, b, n, val, ok) ==
    [op |-> op, a |-> a, b |-> b, n |-> n, val |-> val, ok |-> ok]

\* Two queues, each made by New or by FromSlice from a slice 1..n.
QueueInit ==
    \E n1, n2 \in 0..MaxSliceLen, c1, c2 \in QueueCapArgs, f1, f2 \in BOOLEAN :
        LET m1 == QueueMake(Fresh(1, n1), c1, f1)
            m2 == QueueMake(Fresh(1, n2), c2, f2)
        IN  /\ (~f1 => n1 = 0) /\ (~f2 => n2 = 0)
            /\ heap = (1 :> m1.arr) @@ (2 :> m2.arr)
            /\ buf = [b \in Bufs |-> IF b = 1 THEN m1.rb
                                     ELSE [m2.rb EXCEPT !.data = 2]]
            /\ fifo = [b \in Bufs |-> IF b = 1 THEN Fresh(1, n1) ELSE Fresh(1, n2)]
            /\ snap = 0 /\ next = 0 /\ calls = 0
            /\ panicked = FALSE
            /\ origin = "queue"
            /\ last = QueueCall("New", 1, 2, 0, 0, TRUE)
            /\ Sequential

\* The last value of the run queue b holds (0 if it is empty).
Top(b) == IF fifo[b] = <<>> THEN 0 ELSE fifo[b][Len(fifo[b])]

QueueMayCall == ~panicked /\ calls < MaxQueueCalls

\* q.Enqueue(values...) with the next n values of the run.
QueueEnqueue(b, n) ==
    /\ QueueMayCall
    /\ Top(b) + n <= MaxVal
    /\ LET values == Fresh(Top(b) + 1, n)
           res == EnqueueOp(heap, buf[b], values)
           bs == [buf EXCEPT ![b] = res.r]
       IN  /\ buf' = bs
           /\ heap' = Collect(res.h, Roots(bs, 0))
           /\ panicked' = res.panic
           /\ fifo' = [fifo EXCEPT ![b] = fifo[b] \o values]
           /\ last' = QueueCall("Enqueue", b, b, n, 0, ~res.panic)
    /\ calls' = calls + 1
    /\ UNCHANGED <<snap, next, origin, mu, gr, set, par>>

\* q.Dequeue()
QueueDequeue(b) ==
    /\ QueueMayCall
    /\ LET res == DequeueOp(heap, buf[b])
           bs == [buf EXCEPT ![b] = res.r]
       IN  /\ buf' = bs
           /\ heap' = Collect(res.h, Roots(bs, 0))
           /\ panicked' = res.panic
           /\ last' = QueueCall("Dequeue", b, b, 0, res.val, res.ok)
    /\ fifo' = [fifo EXCEPT ![b] = IF fifo[b] = <<>> THEN <<>> ELSE Tail(fifo[b])]
    /\ calls' = calls + 1
    /\ UNCHANGED <<snap, next, origin, mu, gr, set, par>>

\* a.Equals(b) for two different queues (both slices are dropped on return).
QueueEquals(a, b) ==
    /\ QueueMayCall
    /\ a # b
    /\ LET res == QueueEqualsOp(heap, buf[a], buf[b])
       IN  /\ panicked' = res.panic
           /\ last' = QueueCall("Equals", a, b, 0, 0, res.ok)
    /\ calls' = calls + 1
    /\ UNCHANGED <<heap, buf, fifo, snap, next, origin, mu, gr, set, par>>

\* The conversions between the plain and the concurrent form of a buffer or
\* queue.  Each is &X{buffer: src.buffer.Clone()}.
Conversions ==
    {"SyncFromRingBuffer", "FromSyncRingBuffer", "SyncFromQueue", "FromSyncQueue"}

\* The slot other than b.
Other(b) == 3 - b

\* dst := fn(src) for a conversion fn; dst takes the slot other than src's.
Convert(fn, src) ==
    /\ QueueMayCall
    /\ LET res == CloneOp(heap, buf[src])
           bs == [buf EXCEPT ![Other(src)] = res.r]
       IN  /\ buf' = bs
           /\ heap' = Collect(res.h, Roots(bs, 0))
           /\ panicked' = res.panic
           /\ last' = QueueCall(fn, src, Other(src), 0, 0, ~res.panic)
    /\ fifo' = [fifo EXCEPT ![Other(src)] = fifo[src]]
    /\ calls' = calls + 1
    /\ UNCHANGED <<snap, next, origin, mu, gr, set, par>>

QueueNext ==
    \/ \E b \in Bufs, n \in 1..MaxQueueBatch : QueueEnqueue(b, n)
    \/ \E b \in Bufs : QueueDequeue(b)
    \/ \E a, b \in Bufs : QueueEquals(a, b)
    \/ \E fn \in Conversions, src \in Bufs : Convert(fn, src)

SpecQueue == QueueInit /\ [][QueueNext]_vars

\* ------------------------------------------------------------------- C11
\* C11: Queue.Equals(other) is true exactly when the two queues hold the
\* same elements in the same logical order, whatever their capacities, head
\* positions and histories; and it returns (it does not panic).
C11_Equals ==
    last.op = "Equals" =>
        /\ ~panicked
        /\ last.ok <=> (fifo[last.a] = fifo[last.b])

\* ------------------------------------------------------------------- C12
\* A conversion returned: the result holds the contents of the source, in
\* an array of its own, with the source's Len and Cap.
C12_Result ==
    last.op \in Conversions =>
        /\ ~panicked
        /\ Live(heap, buf[last.b]) = fifo[last.a]
        /\ buf[last.b].data # buf[last.a].data
        /\ LenOf(buf[last.b]) = LenOf(buf[last.a])
        /\ CapOf(buf[last.b]) = CapOf(buf[last.a])

\* A call on one of the two instances after a conversion leaves the other
\* instance's struct and array as they were.
C12_IndependentStep ==
    (last.op \in Conversions /\ ~panicked) =>
        \A b \in Bufs :
            (last'.op \in {"Enqueue", "Dequeue"} /\ last'.a = b) => Untouched(Other(b))

\* C12: after a conversion between the plain and the concurrent form, in
\* either direction, the result holds the contents of the source, and a
\* later mutation of either instance is not visible through the other.
C12_Conversions == []C12_Result /\ [][C12_IndependentStep]_vars

(***************************************************************************)
(* Part 3: the concurrent wrappers SyncRingBuffer, SyncQueue and SyncSet.  *)
(* A run has two instances of one of the three types; an instance is named *)
(* by its address, 1 or 2.  Goroutines call methods on them.  A method     *)
(* call is a sequence of steps: its lock calls, the reads and writes of    *)
(* its body, and its deferred unlock calls.  The methods that take the     *)
(* same locks share their first and last steps, so a goroutine's state     *)
(* names the method only once the body runs.                               *)
(***************************************************************************)

\* The goroutines a run can start, in the order it starts them; each makes
\* one method call.
Goroutines == {1, 2, 3, 4}
\* The items a SyncSet may hold are 1..MaxItem.
MaxItem == 2

Items == 1..MaxItem

\* ------------------------------------------------------------ sync.RWMutex
\* w is the goroutine that has passed rw.w.Lock() and announced itself to
\* the readers (it owns the lock once no reader is active), 0 if none;
\* active counts the read locks each goroutine holds; waiting are the
\* goroutines that called RLock after a writer announced itself and sleep
\* until that writer's Unlock.
NewMutex == [w |-> 0, active |-> [g \in Goroutines |-> 0], waiting |-> {}]

NoReaders(m) == \A g \in Goroutines : m.active[g] = 0

\* rw.RLock() by g: a read lock at once, or a place among the sleepers.
RLockOp(m, g) ==
    IF m.w = 0 THEN [m EXCEPT !.active[g] = @ + 1]
    ELSE [m EXCEPT !.waiting = @ \cup {g}]

\* rw.RUnlock() by g
RUnlockOp(m, g) == [m EXCEPT !.active[g] = @ - 1]

\* rw.Lock() by g can pass rw.w.Lock()
CanLock(m) == m.w = 0

\* rw.Lock() by g: g announces itself; it then waits for the active readers.
LockOp(m, g) == [m EXCEPT !.w = g]

\* rw.Unlock(): the sleeping readers all get their read lock.
UnlockOp(m) ==
    [w |-> 0, active |-> [g \in Goroutines |-> IF g \in m.waiting THEN 1 ELSE 0],
     waiting |-> {}]

\* g's lock call of the given mode on m has returned.
Granted(m, g, mode) ==
    IF mode = "W" THEN m.w = g /\ NoReaders(m)
    ELSE m.active[g] > 0 /\ g \notin m.waiting

\* ------------------------------------------------------------- the methods
\* The lock a single-instance method takes around its body: "R" for
\* mu.RLock(), "W" for mu.Lock(), "-" for none.
\* Enqueue under the shared lock only.
RingLockModeSharedEnqueue ==
    [Len |-> "R", Cap |-> "R", IsEmpty |-> "R", Enqueue |-> "R", Dequeue |-> "W",
     Peek |-> "W", ToSlice |-> "W", Clone |-> "-"]

RingLockMode ==
    [Len |-> "R", Cap |-> "R", IsEmpty |-> "R", Enqueue |-> "W", Dequeue |-> "W",
     Peek |-> "W", ToSlice |-> "W", Clone |-> "-"]

QueueLockMode ==
    [Len |-> "R", Cap |-> "R", IsEmpty |-> "R", Enqueue |-> "W", Dequeue |-> "W",
     Peek |-> "W", ToSlice |-> "W", Clone |-> "W"]

\* Push under the shared lock only.
SetLockModeSharedPush ==
    [Contains |-> "R", Push |-> "R", Pop |-> "W", Peek |-> "R", Size |-> "R",
     IsEmpty |-> "R", Iter |-> "R", Remove |-> "W", Clear |-> "W", Clone |-> "R",
     ToSlice |-> "R"]

\* Remove under the shared lock only.
SetLockModeSharedRemove ==
    [Contains |-> "R", Push |-> "W", Pop |-> "W", Peek |-> "R", Size |-> "R",
     IsEmpty |-> "R", Iter |-> "R", Remove |-> "R", Clear |-> "W", Clone |-> "R",
     ToSlice |-> "R"]

SetLockMode ==
    [Contains |-> "R", Push |-> "W", Pop |-> "W", Peek |-> "R", Size |-> "R",
     IsEmpty |-> "R", Iter |-> "R", Remove |-> "W", Clear |-> "W", Clone |-> "R",
     ToSlice |-> "R"]

\* Enqueue under the shared lock only, on both buffer types.
LockModeSharedEnqueue(type) ==
    CASE type = "SyncRingBuffer" -> [RingLockMode EXCEPT !.Enqueue = "R"]
      [] type = "SyncQueue" -> [QueueLockMode EXCEPT !.Enqueue = "R"]
      [] type = "SyncSet" -> SetLockMode

LockMode(type) ==
    CASE type = "SyncRingBuffer" -> RingLockMode
      [] type = "SyncQueue" -> QueueLockMode
      [] type = "SyncSet" -> SetLockMode

\* The single-instance methods of a type that take the lock in mode.
Methods(type, mode) == {op \in DOMAIN LockMode(type) : LockMode(type)[op] = mode}

\* The two-instance methods of a type, and the lock they take on both.
BinaryMethods(type) ==
    CASE type = "SyncRingBuffer" -> {}
      [] type = "SyncQueue" -> {"Equals"}
      [] type = "SyncSet" -> {"Union", "Intersection", "Difference",
                              "SymmetricDifference", "IsSubsetOf", "Equals"}

\* Every two-instance method under the exclusive lock.
BinaryLockModeExclusive(type) == "W"

BinaryLockMode(type) == IF type = "SyncQueue" THEN "W" ELSE "R"

\* uintptr(unsafe.Pointer(x)): an instance is named by its address.
Addr(x) == x

\* A sort that leaves the receiver first.
ReceiverFirst(a, b) == <<a, b>>

\* utils.SortByAddress(a, b), used by SyncQueue.Equals
SortByAddress(a, b) == IF Addr(a) < Addr(b) THEN <<a, b>> ELSE <<b, a>>

\* sortSyncSetByAddress(a, b), used by the binary methods of SyncSet
sortSyncSetByAddress(a, b) == IF Addr(a) < Addr(b) THEN <<a, b>> ELSE <<b, a>>

\* The receiver is locked first, then the argument.
LockOrderAsCalled(type, receiver, other) == <<receiver, other>>

\* The two instances of receiver.op(other) in the order they are locked.
LockOrder(type, receiver, other) ==
    IF type = "SyncQueue" THEN SortByAddress(receiver, other)
    ELSE sortSyncSetByAddress(receiver, other)

\* ---------------------------------------------------------- the goroutines
\* A goroutine outside any call.
Idle == [pc |-> "idle", mode |-> "-", a |-> 0, b |-> 0, op |-> "", loc |-> <<>>]

\* The record of the call a.op(b) that g returned from in the step just
\* taken (b is 0 for a single-instance method): its value and its flag
\* (found, present, or the Boolean result).  It is NoReturn after a step in
\* which no call returned.
Returned(op, g, a, b, val, ok) ==
    [op |-> op, g |-> g, a |-> a, b |-> b, val |-> val, ok |-> ok]

NoReturn == <<>>

\* The instances a goroutine in call f locks first and second.
First(type, f) == IF f.b = 0 THEN f.a ELSE LockOrder(type, f.a, f.b)[1]
Second(type, f) == LockOrder(type, f.a, f.b)[2]

\* The arrays the program can still reach: those of the instances and those
\* of the buffer structs a goroutine read at the start of a method body.
SyncRoots(bs, g2) ==
    ({bs[b].data : b \in Bufs}
        \cup {g2[g].loc.data : g \in {x \in Goroutines : g2[x].pc = "mid"}}) \ {0}

\* ring.NewSync(capacity...) / queue.NewSync(capacity...): one
\* SyncRingBuffer, or two SyncQueues.
SyncCapArgs == {<<>>, <<1>>}

InitSyncBuffers(type) ==
    \E c1, c2 \in SyncCapArgs :
        LET m1 == New(c1)
            m2 == New(c2)
        IN  /\ (type = "SyncRingBuffer" => c2 = <<>>)
            /\ heap = IF type = "SyncQueue" THEN (1 :> m1.arr) @@ (2 :> m2.arr)
                      ELSE (1 :> m1.arr)
            /\ buf = [b \in Bufs |-> IF b = 1 THEN m1.rb
                                     ELSE IF type = "SyncQueue"
                                          THEN [m2.rb EXCEPT !.data = 2] ELSE NilBuf]
            /\ set = [b \in Bufs |-> {}]
            /\ origin = type

\* set.SyncFromSlice([]int{1}) and set.SyncFromSlice of all the items.
InitialItems(b) == IF b = 1 THEN {1} ELSE Items

InitSyncSets ==
    /\ set = [b \in Bufs |-> InitialItems(b)]
    /\ heap = <<>>
    /\ buf = [b \in Bufs |-> NilBuf]
    /\ origin = "SyncSet"

SyncInit ==
    /\ \/ InitSyncBuffers("SyncRingBuffer")
       \/ InitSyncBuffers("SyncQueue")
       \/ InitSyncSets
    /\ mu = [b \in Bufs |-> NewMutex]
    /\ gr = [g \in Goroutines |-> Idle]
    /\ fifo = [b \in Bufs |-> <<>>]
    /\ snap = 0 /\ next = 1 /\ calls = 0 /\ panicked = FALSE
    /\ last = NoReturn /\ par = <<>>

\* The instances that exist in the run.
Insts == IF origin = "SyncRingBuffer" THEN {1} ELSE Bufs

\* Goroutine g is the next the run starts (go func() { ... }()): calls
\* counts the goroutines started.
MayStart(g) == ~panicked /\ calls = g - 1

\* --------------------------------------------------------- the lock steps
\* m after g called RLock ("R") or passed rw.w.Lock() in Lock ("W").
Acquire(m, g, mode) == IF mode = "W" THEN LockOp(m, g) ELSE RLockOp(m, g)

\* g can take the first step of a lock call of the given mode on m.
CanAcquire(m, mode) == mode = "W" => CanLock(m)

\* m after g's deferred RUnlock ("R") or Unlock ("W"); a method that took
\* no lock ("-") releases none.
Release(m, g, mode) ==
    CASE mode = "W" -> UnlockOp(m)
      [] mode = "R" -> RUnlockOp(m, g)
      [] OTHER -> m

\* The mutexes after the deferred unlock calls of g's call f have run, in
\* the reverse of the order of the lock calls.
Unlocked(f, g) ==
    LET first == First(origin, f)
        m2 == IF f.b = 0 THEN mu
              ELSE [mu EXCEPT ![Second(origin, f)] = Release(@, g, f.mode)]
    IN  [m2 EXCEPT ![first] = Release(@, g, f.mode)]

\* g calls a single-instance method on a that starts with a.mu.RLock()
\* ("R") or a.mu.Lock() ("W").
CallLock(g, a, mode) ==
    /\ MayStart(g)
    /\ a \in Insts
    /\ Methods(origin, mode) # {}
    /\ CanAcquire(mu[a], mode)
    /\ mu' = [mu EXCEPT ![a] = Acquire(@, g, mode)]
    /\ gr' = [gr EXCEPT ![g] = [Idle EXCEPT !.pc = "locked", !.mode = mode, !.a = a]]
    /\ calls' = calls + 1
    /\ last' = NoReturn
    /\ UNCHANGED <<heap, buf, snap, fifo, next, panicked, origin, set, par>>

\* g calls a two-instance method a.op(b): it sorts the two by address and
\* locks the first.
StartBinary(g, a, b) ==
    /\ MayStart(g)
    /\ a \in Insts /\ b \in Insts
    /\ BinaryMethods(origin) # {}
    /\ LET mode == BinaryLockMode(origin)
           first == LockOrder(origin, a, b)[1]
       IN  /\ CanAcquire(mu[first], mode)
           /\ mu' = [mu EXCEPT ![first] = Acquire(@, g, mode)]
           /\ gr' = [gr EXCEPT ![g] = [Idle EXCEPT !.pc = "first", !.mode = mode,
                                                   !.a = a, !.b = b]]
    /\ calls' = calls + 1
    /\ last' = NoReturn
    /\ UNCHANGED <<heap, buf, snap, fifo, next, panicked, origin, set, par>>

\* A two-instance method called on two different instances.
CallBinary(g, a, b) == a # b /\ StartBinary(g, a, b)

\* A two-instance method called with its receiver as the other operand.
CallSelf(g, a) == StartBinary(g, a, a)

\* g holds the first lock of a two-instance method and locks the second.
LockSecond(g) ==
    /\ ~panicked
    /\ gr[g].pc = "first"
    /\ Granted(mu[First(origin, gr[g])], g, gr[g].mode)
    /\ LET second == Second(origin, gr[g])
       IN  /\ CanAcquire(mu[second], gr[g].mode)
           /\ mu' = [mu EXCEPT ![second] = Acquire(@, g, gr[g].mode)]
    /\ gr' = [gr EXCEPT ![g].pc = "second"]
    /\ last' = NoReturn
    /\ UNCHANGED <<heap, buf, snap, fifo, next, panicked, origin, calls, set, par>>

\* ------------------------------------- the bodies: SyncRingBuffer, SyncQueue
IsBufferType == origin \in {"SyncRingBuffer", "SyncQueue"}

Mutators == {"Enqueue", "Dequeue", "Push", "Pop", "Remove", "Clear"}

\* What a body that runs without the lock may find in the struct it read at
\* its start (old) while writers change it (now): each field is the one it
\* read or the current one.
Torn(old, now) ==
    {[data |-> d, head |-> h, tail |-> t, size |-> s, capacity |-> c] :
        d \in {old.data, now.data}, h \in {old.head, now.head},
        t \in {old.tail, now.tail}, s \in {old.size, now.size},
        c \in {old.capacity, now.capacity}}

\* The struct the body of f works on when it ends: the one it read under
\* its lock, or a torn one if it took no lock.
Headers(f) == IF f.mode = "-" THEN Torn(f.loc, buf[f.a]) ELSE {f.loc}

\* rb.buffer.<op>() on struct r and heap h; Enqueue appends the value v.
BufferOp(op, h, r, v) ==
    CASE op = "Len" -> [h |-> h, r |-> r, val |-> LenOf(r), ok |-> TRUE, panic |-> FALSE]
      [] op = "Cap" -> [h |-> h, r |-> r, val |-> CapOf(r), ok |-> TRUE, panic |-> FALSE]
      [] op = "IsEmpty" -> [h |-> h, r |-> r, val |-> 0, ok |-> IsEmpty(r), panic |-> FALSE]
      [] op = "Enqueue" ->
            LET res == EnqueueOp(h, r, <<v>>)
            IN  [h |-> res.h, r |-> res.r, val |-> v, ok |-> ~res.panic, panic |-> res.panic]
      [] op = "Dequeue" -> DequeueOp(h, r)
      [] op = "Peek" ->
            LET res == PeekOp(h, r)
            IN  [h |-> h, r |-> r, val |-> res.val, ok |-> res.ok, panic |-> res.panic]
      [] op = "ToSlice" ->
            LET res == ToSliceOp(h, r)
            IN  [h |-> h, r |-> r, val |-> IF res.panic THEN <<>> ELSE res.h[res.addr],
                 ok |-> ~res.panic, panic |-> res.panic]
      [] op = "Clone" ->
            LET res == CloneOp(h, r)
            IN  [h |-> h, r |-> r, val |-> IF res.panic THEN <<>> ELSE Live(res.h, res.r),
                 ok |-> ~res.panic, panic |-> res.panic]

\* g, holding the lock of its method, starts the body of method op: it
\* reads the fields of the wrapped buffer.
BufferBegin(g, op) ==
    /\ ~panicked /\ IsBufferType
    /\ gr[g].pc = "locked"
    /\ op \in Methods(origin, gr[g].mode)
    /\ Granted(mu[gr[g].a], g, gr[g].mode)
    /\ gr' = [gr EXCEPT ![g].pc = "mid", ![g].op = op, ![g].loc = buf[gr[g].a]]
    /\ last' = NoReturn
    /\ UNCHANGED <<heap, buf, snap, fifo, next, panicked, origin, calls, mu, set, par>>

\* g calls a method that takes no lock and starts its body.
CallUnlocked(g, a, op) ==
    /\ MayStart(g) /\ IsBufferType
    /\ a \in Insts
    /\ op \in Methods(origin, "-")
    /\ gr' = [gr EXCEPT ![g] = [Idle EXCEPT !.pc = "mid", !.a = a, !.op = op,
                                            !.loc = buf[a]]]
    /\ calls' = calls + 1
    /\ last' = NoReturn
    /\ UNCHANGED <<heap, buf, snap, fifo, next, panicked, origin, mu, set, par>>

\* The body of g's method ends: its result is computed, and a mutator
\* stores the fields of the buffer.  The deferred unlock runs and the call
\* returns.
BufferEnd(g) ==
    /\ ~panicked /\ IsBufferType
    /\ gr[g].pc = "mid"
    /\ \E r \in Headers(gr[g]) :
        LET f == gr[g]
            res == BufferOp(f.op, heap, r, next)
            bs == IF f.op \in Mutators THEN [buf EXCEPT ![f.a] = res.r] ELSE buf
            gs == [gr EXCEPT ![g] = Idle]
        IN  /\ gr' = gs
            /\ buf' = bs
            /\ heap' = Collect(res.h, SyncRoots(bs, gs))
            /\ panicked' = res.panic
            /\ last' = Returned(f.op, g, f.a, 0, res.val, res.ok)
            /\ fifo' = CASE f.op = "Enqueue" -> [fifo EXCEPT ![f.a] = Append(@, next)]
                         [] f.op = "Dequeue" /\ fifo[f.a] # <<>> ->
                                [fifo EXCEPT ![f.a] = Tail(@)]
                         [] OTHER -> fifo
            /\ next' = IF f.op = "Enqueue" THEN next + 1 ELSE next
    /\ mu' = Unlocked(gr[g], g)
    /\ UNCHANGED <<snap, origin, calls, set, par>>

\* ------------------------------------------------------- the bodies: Set
\* The orders in which `for item := range s.items` can visit the items s.
Orders(s) ==
    {q \in [1..Cardinality(s) -> s] :
        \A i, j \in 1..Cardinality(s) : i # j => q[i] # q[j]}

Range(q) == {q[i] : i \in 1..Len(q)}

\* A Pop that returns an item and leaves it in the map.
SetOpPopKeeps(op, s, v, order) ==
    CASE op = "Contains" -> [items |-> s, val |-> v, ok |-> v \in s]
      [] op = "Push" -> [items |-> s \cup {v}, val |-> v, ok |-> TRUE]
      [] op = "Pop" ->
            IF order = <<>> THEN [items |-> s, val |-> 0, ok |-> FALSE]
            ELSE [items |-> s, val |-> order[1], ok |-> TRUE]
      [] op = "Peek" ->
            IF order = <<>> THEN [items |-> s, val |-> 0, ok |-> FALSE]
            ELSE [items |-> s, val |-> order[1], ok |-> TRUE]
      [] op = "Size" -> [items |-> s, val |-> Cardinality(s), ok |-> TRUE]
      [] op = "IsEmpty" -> [items |-> s, val |-> 0, ok |-> s = {}]
      [] op = "Iter" -> [items |-> s, val |-> order, ok |-> TRUE]
      [] op = "Remove" -> [items |-> s \ {v}, val |-> v, ok |-> v \in s]
      [] op = "Clear" -> [items |-> {}, val |-> 0, ok |-> TRUE]
      [] op = "Clone" -> [items |-> s, val |-> {x \in s : TRUE}, ok |-> TRUE]
      [] op = "ToSlice" -> [items |-> s, val |-> order, ok |-> TRUE]

\* s.set.<op>(v) on the items s, the map being visited in the given order;
\* items are the items afterwards.
SetOp(op, s, v, order) ==
    CASE op = "Contains" -> [items |-> s, val |-> v, ok |-> v \in s]
      [] op = "Push" -> [items |-> s \cup {v}, val |-> v, ok |-> TRUE]
      [] op = "Pop" ->
            IF order = <<>> THEN [items |-> s, val |-> 0, ok |-> FALSE]
            ELSE [items |-> s \ {order[1]}, val |-> order[1], ok |-> TRUE]
      [] op = "Peek" ->
            IF order = <<>> THEN [items |-> s, val |-> 0, ok |-> FALSE]
            ELSE [items |-> s, val |-> order[1], ok |-> TRUE]
      [] op = "Size" -> [items |-> s, val |-> Cardinality(s), ok |-> TRUE]
      [] op = "IsEmpty" -> [items |-> s, val |-> 0, ok |-> s = {}]
      [] op = "Iter" -> [items |-> s, val |-> order, ok |-> TRUE]
      [] op = "Remove" -> [items |-> s \ {v}, val |-> v, ok |-> v \in s]
      [] op = "Clear" -> [items |-> {}, val |-> 0, ok |-> TRUE]
      [] op = "Clone" -> [items |-> s, val |-> {x \in s : TRUE}, ok |-> TRUE]
      [] op = "ToSlice" -> [items |-> s, val |-> order, ok |-> TRUE]

\* The iterator Iter returns: the snapshot slice it ranges over and what it
\* has yielded; base is the set's items when the snapshot was taken.
NewIter(snapshot, s) == [snap |-> snapshot, seen |-> <<>>, base |-> s]

\* An iterator that ranges over the set itself: it may yield any item the
\* set holds now that it has not yielded.
IterItemsLive(it, live) == live \ Range(it.seen)

\* What the iterator it may yield next while the set holds the items live
\* (it ranges over its snapshot, not over the set).
IterItems(it, live) ==
    IF Len(it.seen) < Len(it.snap) THEN {it.snap[Len(it.seen) + 1]} ELSE {}

\* g, holding the lock of its method, runs the body of the SyncSet method
\* op; the deferred unlock runs and the call returns.  The caller of Iter
\* keeps the iterator it got.
SetBody(g, op, v) ==
    /\ ~panicked /\ origin = "SyncSet"
    /\ gr[g].pc = "locked"
    /\ op \in Methods(origin, gr[g].mode)
    /\ Granted(mu[gr[g].a], g, gr[g].mode)
    /\ \E order \in Orders(set[gr[g].a]) :
        LET a == gr[g].a
            res == SetOp(op, set[a], v, order)
        IN  /\ gr' = [gr EXCEPT ![g] =
                        IF op = "Iter"
                        THEN [Idle EXCEPT !.pc = "iter", !.a = a, !.op = op,
                                          !.loc = NewIter(order, set[a])]
                        ELSE Idle]
            /\ set' = [set EXCEPT ![a] = res.items]
            /\ last' = Returned(op, g, a, 0, res.val, res.ok)
    /\ mu' = Unlocked(gr[g], g)
    /\ UNCHANGED <<heap, buf, snap, fifo, next, panicked, origin, calls, par>>

\* The caller of Iter runs the iterator one step: it yields an item.
Yield(g) ==
    /\ ~panicked
    /\ gr[g].pc = "iter"
    /\ \E x \in IterItems(gr[g].loc, set[gr[g].a]) :
        gr' = [gr EXCEPT ![g].loc.seen = Append(@, x)]
    /\ last' = NoReturn
    /\ UNCHANGED <<heap, buf, snap, fifo, next, panicked, origin, calls, mu, set, par>>

\* The iterator has nothing left to yield; the caller drops it.
IterEnd(g) ==
    /\ ~panicked
    /\ gr[g].pc = "iter"
    /\ IterItems(gr[g].loc, set[gr[g].a]) = {}
    /\ gr' = [gr EXCEPT ![g] = Idle]
    /\ last' = Returned("IterEnd", g, gr[g].a, 0, gr[g].loc, TRUE)
    /\ UNCHANGED <<heap, buf, snap, fifo, next, panicked, origin, calls, mu, set, par>>

\* ------------------------------------------- the bodies: two-instance methods
\* An Intersection that, when the receiver is the larger set, returns the
\* smaller set as it is.
SetBinaryOpNoFilter(op, s, o) ==
    CASE op = "Union" -> s \cup o
      [] op = "Intersection" ->
            IF Cardinality(s) > Cardinality(o) THEN o
            ELSE {x \in s : x \in o}
      [] op = "Difference" -> {x \in s : x \notin o}
      [] op = "SymmetricDifference" -> {x \in s : x \notin o} \cup {x \in o : x \notin s}
      [] op = "IsSubsetOf" -> \A x \in s : x \in o
      [] op = "Equals" -> Cardinality(s) = Cardinality(o) /\ \A x \in s : x \in o

\* An Equals that does not compare the sizes.
SetBinaryOpNoSize(op, s, o) ==
    CASE op = "Union" -> s \cup o
      [] op = "Intersection" ->
            IF Cardinality(s) > Cardinality(o) THEN {x \in o : x \in s}
            ELSE {x \in s : x \in o}
      [] op = "Difference" -> {x \in s : x \notin o}
      [] op = "SymmetricDifference" -> {x \in s : x \notin o} \cup {x \in o : x \notin s}
      [] op = "IsSubsetOf" -> \A x \in s : x \in o
      [] op = "Equals" -> \A x \in s : x \in o

\* s.<op>(o) of Set on the items s and o.
SetBinaryOp(op, s, o) ==
    CASE op = "Union" -> s \cup o
      [] op = "Intersection" ->
            IF Cardinality(s) > Cardinality(o) THEN {x \in o : x \in s}
            ELSE {x \in s : x \in o}
      [] op = "Difference" -> {x \in s : x \notin o}
      [] op = "SymmetricDifference" -> {x \in s : x \notin o} \cup {x \in o : x \notin s}
      [] op = "IsSubsetOf" -> \A x \in s : x \in o
      [] op = "Equals" -> Cardinality(s) = Cardinality(o) /\ \A x \in s : x \in o

\* What a two-instance method reads first: SyncQueue.Equals the slice of the
\* first locked queue, a SyncSet method the items of its receiver.
FirstOperand(f) ==
    IF origin = "SyncQueue"
    THEN LET res == ToSliceOp(heap, buf[First(origin, f)])
         IN  [val |-> IF res.panic THEN <<>> ELSE res.h[res.addr], panic |-> res.panic]
    ELSE [val |-> set[f.a], panic |-> FALSE]

\* g, holding both locks, reads the first operand.
ReadFirst(g) ==
    /\ ~panicked
    /\ gr[g].pc = "second"
    /\ Granted(mu[Second(origin, gr[g])], g, gr[g].mode)
    /\ LET res == FirstOperand(gr[g])
       IN  /\ panicked' = res.panic
           /\ gr' = [gr EXCEPT ![g].pc = "read", ![g].loc = res.val]
    /\ last' = NoReturn
    /\ UNCHANGED <<heap, buf, snap, fifo, next, origin, calls, mu, set, par>>

\* The two-instance methods that return a Boolean; the others return a new
\* SyncSet.
Predicates == {"IsSubsetOf", "Equals"}

\* The result of op on what was read first (read) and the second operand:
\* val is the new set's items (none for a predicate), ok the Boolean.
BinaryResult(op, f, read) ==
    IF origin = "SyncQueue"
    THEN LET res == ToSliceOp(heap, buf[Second(origin, f)])
         IN  [val |-> {}, ok |-> ~res.panic /\ slicesEqual(read, res.h[res.addr]),
              panic |-> res.panic]
    ELSE IF op \in Predicates
         THEN [val |-> {}, ok |-> SetBinaryOp(op, read, set[f.b]), panic |-> FALSE]
         ELSE [val |-> SetBinaryOp(op, read, set[f.b]), ok |-> TRUE, panic |-> FALSE]

\* g reads the second operand and computes the result of method op; the
\* deferred unlocks run and the call returns.
ReadSecond(g, op) ==
    /\ ~panicked
    /\ gr[g].pc = "read"
    /\ op \in BinaryMethods(origin)
    /\ gr' = [gr EXCEPT ![g] = Idle]
    /\ LET res == BinaryResult(op, gr[g], gr[g].loc)
       IN  /\ panicked' = res.panic
           /\ last' = Returned(op, g, gr[g].a, gr[g].b, res.val, res.ok)
    /\ mu' = Unlocked(gr[g], g)
    /\ UNCHANGED <<heap, buf, snap, fifo, next, origin, calls, set, par>>

\* ------------------------------------------------------- the specification
AllMethods ==
    DOMAIN RingLockMode \cup DOMAIN SetLockMode \cup BinaryMethods("SyncSet")

\* The goroutines a run on instances of the given type starts.
Workers(type) == IF type = "SyncRingBuffer" THEN {1, 2, 3, 4} ELSE {1, 2, 3}

SyncNext ==
    \/ \E g \in Workers(origin), a \in Bufs, mode \in {"R", "W"} : CallLock(g, a, mode)
    \/ \E g \in Workers(origin), a, b \in Bufs : CallBinary(g, a, b)
    \/ \E g \in Workers(origin), a \in Bufs, op \in AllMethods : CallUnlocked(g, a, op)
    \/ \E g \in Goroutines : LockSecond(g)
    \/ \E g \in Goroutines, op \in AllMethods : BufferBegin(g, op)
    \/ \E g \in Goroutines : BufferEnd(g)
    \/ \E g \in Goroutines, op \in AllMethods, v \in Items : SetBody(g, op, v)
    \/ \E g \in Goroutines : Yield(g)
    \/ \E g \in Goroutines : IterEnd(g)
    \/ \E g \in Goroutines : ReadFirst(g)
    \/ \E g \in Goroutines, op \in AllMethods : ReadSecond(g, op)

SpecSync == SyncInit /\ [][SyncNext]_vars

\* ------------------------------------------- writers against binary methods
\* The runs of TestSyncSetDeadlockPrevention and of the like on SyncQueue:
\* every goroutine calls a two-instance method, in either direction, or a
\* mutating method on one of the two instances.
RaceInit(type) == SyncInit /\ origin = type

\* The next step of the call g is in.
SetRaceStep(g) ==
    \/ LockSecond(g)
    \/ \E op \in {"Push", "Remove"}, v \in Items : SetBody(g, op, v)
    \/ ReadFirst(g)
    \/ \E op \in AllMethods : ReadSecond(g, op)

QueueRaceStep(g) ==
    \/ LockSecond(g)
    \/ \E op \in Mutators : BufferBegin(g, op)
    \/ BufferEnd(g)
    \/ ReadFirst(g)
    \/ \E op \in AllMethods : ReadSecond(g, op)

RaceStart ==
    \/ \E g \in Goroutines, a \in Bufs : CallLock(g, a, "W")
    \/ \E g \in Goroutines, a, b \in Bufs : CallBinary(g, a, b)

SetRaceNext == RaceStart \/ \E g \in Goroutines : SetRaceStep(g)

QueueRaceNext == RaceStart \/ \E g \in Goroutines : QueueRaceStep(g)

\* The Go scheduler runs a goroutine that is not blocked: while some call
\* can take its next step, one does (each step changes gr).
FairSpecSet ==
    /\ RaceInit("SyncSet") /\ [][SetRaceNext]_vars
    /\ WF_gr(\E g \in Goroutines : SetRaceStep(g))

FairSpecQueue ==
    /\ RaceInit("SyncQueue") /\ [][QueueRaceNext]_vars
    /\ WF_gr(\E g \in Goroutines : QueueRaceStep(g))

\* ------------------------------------------------------------------- C13
\* g holds the lock of instance x, shared or exclusive.
HoldsLock(g, x) == Granted(mu[x], g, "R") \/ Granted(mu[x], g, "W")

\* The instances whose wrapped value the body of g's call is reading or
\* writing.
Accessing(g) ==
    CASE gr[g].pc = "mid" -> {gr[g].a}
      [] gr[g].pc = "read" -> {gr[g].a, gr[g].b}
      [] OTHER -> {}

\* C13: every public method of SyncRingBuffer and of SyncQueue holds the
\* instance's lock for as long as its body accesses the wrapped value.
C13_LockHeld ==
    origin \in {"SyncRingBuffer", "SyncQueue"} =>
        \A g \in Goroutines : \A x \in Accessing(g) : HoldsLock(g, x)

\* ------------------------------------------------------------------- C14
\* The methods that read and change nothing.
PureReads == {"Len", "Cap", "IsEmpty", "Peek", "ToSlice", "Clone", "Contains", "Size", "Iter"}

\* In this step the body of a single-instance method called by g starts.
BodyStarts(g) ==
    IF IsBufferType THEN gr[g].pc \in {"idle", "locked"} /\ gr'[g].pc = "mid"
    ELSE gr[g].pc = "locked" /\ gr'[g].pc \in {"idle", "iter"}

\* The method whose body starts, and the instance it is called on.
StartedOp(g) == IF IsBufferType THEN gr'[g].op ELSE last'.op
StartedOn(g) == IF IsBufferType THEN gr'[g].a ELSE last'.a

\* C14: the body of every mutating method runs under the exclusive lock of
\* its instance and the body of every pure read under the shared lock.
C14_LockModes ==
    [][\A g \in Goroutines :
         BodyStarts(g) =>
            /\ StartedOp(g) \in Mutators => Granted(mu[StartedOn(g)], g, "W")
            /\ StartedOp(g) \in PureReads => Granted(mu[StartedOn(g)], g, "R")]_vars

\* ------------------------------------------------------------------- C15
\* Every instance holds exactly the values enqueued and not yet dequeued, in
\* the order in which the Enqueue calls took effect.
C15_Contents ==
    IsBufferType =>
        \A x \in Insts : Live(heap, buf[x]) = fifo[x] /\ LenOf(buf[x]) = Len(fifo[x])

\* A call that returns in this step: Dequeue reports found exactly when a
\* value is stored and returns (and removes) the oldest one; Len returns
\* the number of stored values.
C15_Returns ==
    (IsBufferType /\ last' # NoReturn) =>
        /\ last'.op = "Dequeue" =>
                /\ last'.ok <=> fifo[last'.a] # <<>>
                /\ last'.ok => /\ last'.val = Head(fifo[last'.a])
                               /\ Live(heap', buf'[last'.a]) = Tail(fifo[last'.a])
        /\ last'.op = "Enqueue" =>
                Live(heap', buf'[last'.a]) = Append(fifo[last'.a], last'.val)
        /\ last'.op = "Len" => last'.val = Len(fifo[last'.a])

\* C15: single-instance calls on a SyncRingBuffer (and a SyncQueue) take
\* effect one at a time and no update is lost: after N Enqueue calls Len is N
\* and the buffer holds exactly the N values; N Dequeue calls on N stored
\* values each return found = true and each value exactly once.
C15_Linearizable == []C15_Contents /\ [][C15_Returns]_vars

\* Two goroutines' Enqueue calls and two goroutines' Dequeue calls have all
\* returned, the last Dequeue with the second value.
C15_Witness ==
    /\ origin = "SyncRingBuffer" /\ last # NoReturn
    /\ last.op = "Dequeue" /\ last.ok /\ last.val = 2 /\ calls = 4

\* ------------------------------------------------------------------- C16
\* C16: while goroutines call the two-set methods of two distinct SyncSets
\* in either operand order and others call Push and Remove on the two sets,
\* no call waits forever: every call that was made returns.
C16_DeadlockFree ==
    \A g \in Goroutines : (origin = "SyncSet" /\ gr[g].pc # "idle") ~> gr[g].pc = "idle"

\* g has called a two-instance method on receiver x and is at pc.
InBinary(g, x, pc) == gr[g].a = x /\ gr[g].b = Other(x) /\ gr[g].pc = pc

\* A two-set call in each operand order is in progress while a Push or
\* Remove has announced itself on each set; one of the two calls waits for
\* its second lock behind such a writer.
C16_Witness ==
    /\ origin = "SyncSet"
    /\ \E g, h \in Goroutines :
            /\ gr[g].pc \in {"first", "second"} /\ gr[g].a = 1 /\ gr[g].b = 2
            /\ gr[h].pc \in {"first", "second"} /\ gr[h].a = 2 /\ gr[h].b = 1
    /\ mu[1].w # 0 /\ mu[2].w # 0
    /\ mu[2].waiting # {}

\* ------------------------------------------------------------------- C17
\* g holds the lock of instance x or has asked for it.
HasOrWants(m, g) == m.w = g \/ m.active[g] > 0 \/ g \in m.waiting

\* In this step g asks for the lock of instance x.
Requests(g, x) == ~HasOrWants(mu[x], g) /\ HasOrWants(mu'[x], g)

\* No goroutine asks for the lock of an instance while it holds the lock of
\* an instance at a higher address.
C17_Ascending ==
    \A g \in Goroutines : \A x, y \in Bufs :
        (HoldsLock(g, y) /\ Requests(g, x)) => Addr(y) < Addr(x)

\* Sorting (x, y) and (y, x) gives the same pair, lower address first.
C17_SameOrder ==
    \A x, y \in Insts : x # y =>
        /\ LockOrder(origin, x, y) = LockOrder(origin, y, x)
        /\ Addr(LockOrder(origin, x, y)[1]) < Addr(LockOrder(origin, x, y)[2])

\* C17: every two-set method of SyncSet and SyncQueue.Equals takes its two
\* locks in ascending order of the instances' addresses whichever operand is
\* the receiver, and the sort of (x, y) and of (y, x) gives the same pair.
C17_LockOrder == []C17_SameOrder /\ [][C17_Ascending]_vars

\* A call whose receiver is at the higher address holds the lock of the
\* lower instance and has asked for the lock of its receiver.
C17_Witness ==
    \E g \in Goroutines :
        /\ gr[g].pc = "second" /\ gr[g].a = 2 /\ gr[g].b = 1
        /\ HoldsLock(g, 1) /\ HasOrWants(mu[2], g)

\* ------------------------------------------------------------------- C18
\* C18: while goroutines call q1.Equals(q2) and q2.Equals(q1) on two
\* distinct SyncQueues and others enqueue and dequeue on the two, every
\* Equals call returns.
C18_EqualsReturns ==
    \A g \in Goroutines :
        (origin = "SyncQueue" /\ gr[g].pc \in {"first", "second", "read"})
            ~> gr[g].pc = "idle"

\* q2.Equals(q1) holds the lock of q1 and waits for the lock of q2, which an
\* Enqueue or Dequeue in progress holds.
C18_Witness ==
    /\ origin = "SyncQueue"
    /\ \E g, h \in Goroutines :
            /\ InBinary(g, 2, "first") /\ HoldsLock(g, 1)
            /\ gr[h].pc = "mid" /\ gr[h].a = 2 /\ gr[h].op \in Mutators
            /\ HoldsLock(h, 2)

\* ------------------------------------------------------------------- C19
\* C19 as stated: each operand of a two-instance method is read under its
\* own lock alone, so that the other operand can change between the two
\* reads: once the first operand is read, its lock is no longer held.
C19_OwnLockOnly ==
    \A g \in Goroutines :
        gr[g].pc = "read" => ~(HoldsLock(g, gr[g].a) /\ HoldsLock(g, gr[g].b))

\* The slice ToSlice gives for the queue at x now.
SliceNow(x) == LET res == ToSliceOp(heap, buf[x]) IN res.h[res.addr]

\* What the first read of g's two-instance call would find now.
FirstNow(g) == FirstOperand(gr[g]).val

\* Between its two reads a two-instance call holds both locks, and the
\* operand it has read is still as it read it.
C19_BothHeld ==
    \A g \in Goroutines :
        gr[g].pc = "read" =>
            /\ HoldsLock(g, gr[g].a) /\ HoldsLock(g, gr[g].b)
            /\ gr[g].loc = FirstNow(g)

\* The result a two-instance call returns is the method's result on the
\* contents the two instances have at the instant of the return.
C19_JointResult ==
    (last # NoReturn /\ last.b # 0 /\ ~panicked) =>
        IF origin = "SyncQueue"
        THEN last.ok <=> slicesEqual(SliceNow(last.a), SliceNow(last.b))
        ELSE IF last.op \in Predicates
             THEN last.ok <=> SetBinaryOp(last.op, set[last.a], set[last.b])
             ELSE last.val = SetBinaryOp(last.op, set[last.a], set[last.b])

\* C19, amended: a two-instance method holds the locks of both operands from
\* before its first read until it returns, so no mutation takes effect
\* between the reads and its result matches the joint contents of the two
\* operands at the instant it returns.
C19_Atomic == C19_BothHeld /\ C19_JointResult

\* A two-set call returns while a mutator that announced itself during the
\* call still waits for the lock of one of the operands.
C19_Witness ==
    /\ last # NoReturn /\ last.b # 0
    /\ \E h \in Goroutines :
            /\ gr[h].pc = "locked" /\ gr[h].mode = "W"
            /\ ~Granted(mu[gr[h].a], h, "W")

\* ------------------------------------------------------------------- C20
\* The sequence q holds each of its items once.
NoRepeats(q) == \A i, j \in 1..Len(q) : i # j => q[i] # q[j]

\* What an iterator has yielded so far is without repeats and among the
\* items the set held when Iter was called.
C20_Yielded ==
    \A g \in Goroutines :
        gr[g].pc = "iter" =>
            NoRepeats(gr[g].loc.seen) /\ Range(gr[g].loc.seen) \subseteq gr[g].loc.base

\* An iteration that has ended has yielded exactly those items.
C20_Complete ==
    (last # NoReturn /\ last.op = "IterEnd") =>
        NoRepeats(last.val.seen) /\ Range(last.val.seen) = last.val.base

\* C20: the iterator SyncSet.Iter returns yields exactly the items the set
\* held when Iter was called, each once, whatever Push, Remove and Clear
\* calls other goroutines make after the call and during the iteration.
C20_Snapshot == C20_Yielded /\ C20_Complete

\* An iteration ends after the set lost an item of the snapshot and gained
\* one that is not in it.
C20_Witness ==
    /\ last # NoReturn /\ last.op = "IterEnd"
    /\ last.val.base \ set[last.a] # {}
    /\ set[last.a] \ last.val.base # {}

(***************************************************************************)
(* Part 4: the plain Set.  A Set is a struct whose one field, items, is a  *)
(* map; a map is a reference, so set[x] is here the address of the map of  *)
(* the Set in slot x and heap holds the maps' keys.  Slots 1 and 2 hold    *)
(* two sets built by FromSlice, slot 3 the set the latest algebra method   *)
(* returned.                                                               *)
(***************************************************************************)

\* The items a Set may hold are 1..MaxElem.
MaxElem == 5
\* Most method calls a run makes on its sets.
MaxSetCalls == 2

Universe == 1..MaxElem

Slots == {1, 2, 3}

\* The maps the program can still reach.
SetRoots(ss) == {ss[x] : x \in Slots} \ {0}

\* The keys of the map of the Set in slot x.
ItemsOf(x) == heap[set[x]]

\* set.FromSlice(data), twice.
SetInit ==
    /\ \E A, B \in SUBSET Universe : heap = (1 :> A) @@ (2 :> B)
    /\ set = <<1, 2, 0>>
    /\ mu = <<>> /\ gr = <<>>
    /\ buf = [b \in Bufs |-> NilBuf]
    /\ fifo = <<>> /\ snap = 0 /\ next = 0 /\ calls = 0
    /\ panicked = FALSE /\ origin = "Set"
    /\ last = NoReturn /\ par = <<>>

\* The item `for item := range s.items` visits first, as a slice of one
\* item (none if the map is empty).
FirstVisited(s) == IF s = {} THEN {<<>>} ELSE {<<x>> : x \in s}

\* The methods that take an item.
TakesItem == {"Push", "Remove"}

\* s.<op>(v) on the Set in slot x: Push, Pop, Peek and Remove work on the
\* map of s; Clear gives s a new map.
SetCall(op, x, v) ==
    /\ calls < MaxSetCalls
    /\ set[x] # 0
    /\ op \in {"Push", "Pop", "Peek", "Remove", "Clear"}
    /\ op \in TakesItem \/ v = 1
    /\ \E order \in FirstVisited(ItemsOf(x)) :
        LET res == SetOp(op, ItemsOf(x), v, order)
            a == Alloc(heap)
            ss == IF op = "Clear" THEN [set EXCEPT ![x] = a] ELSE set
            h == IF op = "Clear" THEN Store(heap, a, res.items)
                 ELSE [heap EXCEPT ![set[x]] = res.items]
        IN  /\ set' = ss
            /\ heap' = Collect(h, SetRoots(ss))
            /\ last' = Returned(op, 0, x, 0, res.val, res.ok)
    /\ calls' = calls + 1
    /\ UNCHANGED <<buf, snap, fifo, next, panicked, origin, mu, gr, par>>

\* An algebra method that builds its result in the map of its receiver and
\* returns the receiver.
SetAlgebraInPlace(op, x, y) ==
    /\ calls < MaxSetCalls
    /\ x = 1 /\ y \in {1, 2}
    /\ op \in BinaryMethods("SyncSet")
    /\ LET res == SetBinaryOp(op, ItemsOf(x), ItemsOf(y))
           ss == [set EXCEPT ![3] = set[x]]
       IN  IF op \in Predicates
           THEN /\ last' = Returned(op, 0, x, y, 0, res)
                /\ UNCHANGED <<heap, set, par>>
           ELSE /\ last' = Returned(op, 0, x, y, set[x], TRUE)
                /\ set' = ss
                /\ heap' = Collect([heap EXCEPT ![set[x]] = res], SetRoots(ss))
    /\ calls' = calls + 1
    /\ UNCHANGED <<buf, snap, fifo, next, panicked, origin, mu, gr, par>>

\* s.<op>(other) for the Set s in slot 1 and the Set other in slot y (s
\* itself or the second set): a predicate returns its Boolean, the other
\* methods a new Set, kept in slot 3.
SetAlgebra(op, x, y) ==
    /\ calls < MaxSetCalls
    /\ x = 1 /\ y \in {1, 2}
    /\ op \in BinaryMethods("SyncSet")
    /\ LET res == SetBinaryOp(op, ItemsOf(x), ItemsOf(y))
           a == Alloc(heap)
           ss == [set EXCEPT ![3] = a]
       IN  IF op \in Predicates
           THEN /\ last' = Returned(op, 0, x, y, 0, res)
                /\ UNCHANGED <<heap, set, par>>
           ELSE /\ last' = Returned(op, 0, x, y, a, TRUE)
                /\ set' = ss
                /\ heap' = Collect(Store(heap, a, res), SetRoots(ss))
    /\ calls' = calls + 1
    /\ UNCHANGED <<buf, snap, fifo, next, panicked, origin, mu, gr, par>>

SetNext ==
    \/ \E op \in AllMethods, x \in Slots, v \in Universe : SetCall(op, x, v)
    \/ \E op \in AllMethods, x, y \in Slots : SetAlgebra(op, x, y)

SpecSet == SetInit /\ [][SetNext]_vars

\* ------------------------------------------------------------------- C21
\* An algebra method that returns a Set has just returned.
AlgebraReturned == last # NoReturn /\ last.b # 0 /\ last.op \notin Predicates

\* C21: Union, Intersection, Difference and SymmetricDifference return
\* exactly the union, the intersection, the difference and the symmetric
\* difference of the two sets, and Intersection returns the same set with
\* the operands exchanged.
C21_Algebra ==
    AlgebraReturned =>
        LET A == ItemsOf(last.a)
            B == ItemsOf(last.b)
            R == heap[last.val]
        IN  /\ last.op = "Union" => R = A \cup B
            /\ last.op = "Intersection" =>
                    R = A \cap B /\ R = SetBinaryOp("Intersection", B, A)
            /\ last.op = "Difference" => R = A \ B
            /\ last.op = "SymmetricDifference" => R = (A \ B) \cup (B \ A)

\* {1,2,3}.Intersection({3,4}) returned {3}: the receiver is the larger
\* set.
C21_Witness ==
    /\ AlgebraReturned /\ last.op = "Intersection" /\ last.a = 1 /\ last.b = 2
    /\ ItemsOf(1) = {1, 2, 3} /\ ItemsOf(2) = {3, 4}
    /\ heap[last.val] = {3}

\* ------------------------------------------------------------------- C22
\* C22: A.Equals(B) holds exactly when A.IsSubsetOf(B), B.IsSubsetOf(A) and
\* the two sizes are equal, that is when the two sets hold the same items;
\* B.Equals(A) gives the same answer, and sets of different size are never
\* equal.  A.IsSubsetOf(B) holds exactly when every item of A is in B.
C22_Equals ==
    (last # NoReturn /\ last.b # 0 /\ last.op \in Predicates) =>
        LET A == ItemsOf(last.a)
            B == ItemsOf(last.b)
        IN  /\ last.op = "IsSubsetOf" => (last.ok <=> A \subseteq B)
            /\ last.op = "Equals" =>
                /\ last.ok <=> /\ SetBinaryOp("IsSubsetOf", A, B)
                               /\ SetBinaryOp("IsSubsetOf", B, A)
                               /\ Cardinality(A) = Cardinality(B)
                /\ last.ok <=> A = B
                /\ last.ok <=> SetBinaryOp("Equals", B, A)
                /\ Cardinality(A) # Cardinality(B) => ~last.ok

\* Equals returned false for a receiver that is a proper subset of its
\* argument.
C22_Witness ==
    /\ last # NoReturn /\ last.op = "Equals" /\ last.b = 2 /\ ~last.ok
    /\ ItemsOf(1) \subseteq ItemsOf(2) /\ ItemsOf(1) # {}

\* ------------------------------------------------------------------- C23
\* The Set in slot x and its items are the same before and after a step.
SameSet(x) == set'[x] = set[x] /\ (set[x] # 0 => heap'[set[x]] = heap[set[x]])

\* A call returns in this step: an algebra method has left both operands
\* as they were and its result has a new map; any other method has left
\* every Set but its receiver as it was.
C23_Step ==
    last' # NoReturn =>
        IF last'.b # 0
        THEN /\ SameSet(1) /\ SameSet(2)
             /\ last'.op \notin Predicates =>
                    /\ last'.val = set'[3]
                    /\ set'[3] \notin {set'[1], set'[2]}
                    /\ set'[3] \notin DOMAIN heap
        ELSE \A x \in Slots \ {last'.a} : SameSet(x)

\* C23: an algebra method changes neither operand and the Set it returns
\* is a new one; a later change of the result changes no operand and a
\* later change of an operand does not change the result.
C23_Frame == [][C23_Step]_vars

\* The Set an algebra method returned was then given an item that neither
\* operand holds.
C23_Witness ==
    /\ last # NoReturn /\ last.op = "Push" /\ last.a = 3
    /\ last.val \in ItemsOf(3) /\ last.val \notin ItemsOf(1) \cup ItemsOf(2)

\* ------------------------------------------------------------------- C24
\* Pop or Peek returns in this step.  On a non-empty Set both return an
\* item the Set held, with true; Pop has removed that item and nothing
\* else, Peek has changed nothing.  On an empty Set both return the zero
\* value with false and the Set stays empty.
C24_Step ==
    (last' # NoReturn /\ last'.op \in {"Pop", "Peek"}) =>
        LET before == ItemsOf(last'.a)
            after == heap'[set'[last'.a]]
        IN  IF before = {}
            THEN ~last'.ok /\ last'.val = 0 /\ after = {}
            ELSE /\ last'.ok /\ last'.val \in before
                 /\ last'.op = "Peek" => after = before
                 /\ last'.op = "Pop" =>
                        /\ last'.val \notin after
                        /\ after = before \ {last'.val}
                        /\ Cardinality(after) = Cardinality(before) - 1

\* C24: on a non-empty Set Pop returns (x, true) for a member x, removes x,
\* lowers Size by one and leaves the other members; Peek returns (x, true)
\* for a member x and changes nothing; on an empty Set both return (zero
\* value, false) and leave it empty.
C24_PopPeek == [][C24_Step]_vars

\* Pop returned an item that is not the smallest of the Set; others remain.
C24_Witness ==
    /\ last # NoReturn /\ last.op = "Pop" /\ last.ok
    /\ last.val = 3 /\ {1, 2} \subseteq ItemsOf(last.a)

\* ------------------------------------------------ goroutines calling Remove
\* Every goroutine calls Remove on one of two SyncSets.  The body of
\* Set.Remove is two steps, s.Contains(item) and delete(s.items, item); in
\* these runs fifo[a] is the record of the calls that returned on set a:
\* the item and the result of each, in the order of the returns.
RemoveStart(g, a) == CallLock(g, a, LockMode(origin)["Remove"])

\* g, holding the lock, evaluates s.Contains(item) for the item v.
RemoveContains(g, v) ==
    /\ ~panicked /\ origin = "SyncSet"
    /\ gr[g].pc = "locked"
    /\ "Remove" \in Methods(origin, gr[g].mode)
    /\ Granted(mu[gr[g].a], g, gr[g].mode)
    /\ gr' = [gr EXCEPT ![g].pc = "found", ![g].op = "Remove",
                         ![g].loc = [item |-> v, has |-> v \in set[gr[g].a]]]
    /\ last' = NoReturn
    /\ UNCHANGED <<heap, buf, snap, fifo, next, panicked, origin, calls, mu, set, par>>

\* g deletes the item if Contains found it and returns what Contains
\* found; the deferred unlock runs.
RemoveDelete(g) ==
    /\ ~panicked
    /\ gr[g].pc = "found"
    /\ LET a == gr[g].a
           v == gr[g].loc.item
           has == gr[g].loc.has
       IN  /\ gr' = [gr EXCEPT ![g] = Idle]
           /\ set' = [set EXCEPT ![a] = IF has THEN @ \ {v} ELSE @]
           /\ last' = Returned("Remove", g, a, 0, v, has)
           /\ fifo' = [fifo EXCEPT ![a] = Append(@, <<v, has>>)]
    /\ mu' = Unlocked(gr[g], g)
    /\ UNCHANGED <<heap, buf, snap, next, panicked, origin, calls, par>>

RemoveNext ==
    \/ \E g \in Goroutines, a \in Bufs : RemoveStart(g, a)
    \/ \E g \in Goroutines, v \in Items : RemoveContains(g, v)
    \/ \E g \in Goroutines : RemoveDelete(g)

SpecRemove == RaceInit("SyncSet") /\ [][RemoveNext]_vars

\* ------------------------------------------------------------------- C25
\* The number of Remove(x) calls on set a that returned true.
Removals(a, x) == Cardinality({i \in 1..Len(fifo[a]) : fifo[a][i] = <<x, TRUE>>})

\* Some Remove(x) call on set a has returned.
RemoveReturned(a, x) == \E i \in 1..Len(fifo[a]) : fifo[a][i][1] = x

\* Once a Remove(x) has returned on a set, x is absent from it, and of all
\* the Remove(x) calls that returned exactly one returned true if the set
\* held x, none otherwise.
C25_ExactlyOne ==
    \A a \in Bufs, x \in Items :
        RemoveReturned(a, x) =>
            /\ x \notin set[a]
            /\ Removals(a, x) = IF x \in InitialItems(a) THEN 1 ELSE 0

\* A Remove that returns in this step returns true exactly if the set
\* holds the item at that moment.
C25_Step ==
    (last' # NoReturn /\ last'.op = "Remove") =>
        /\ last'.ok <=> last'.val \in set[last'.a]
        /\ last'.val \notin set'[last'.a]

\* C25: Remove(x) returns true exactly when x was a member at the moment of
\* removal; when goroutines call Remove(x) concurrently on a SyncSet that
\* holds x and none pushes x, exactly one call returns true, the others
\* false, and x is absent afterwards.
C25_Remove == []C25_ExactlyOne /\ [][C25_Step]_vars

\* Four goroutines have called Remove(1) on the second set and returned.
C25_Witness ==
    /\ Len(fifo[2]) = 4 /\ \A i \in 1..4 : fifo[2][i][1] = 1
    /\ Removals(2, 1) = 1

\* ------------------------- goroutines calling s.Method(s) on the same set
\* Two SyncSets of any items; every goroutine calls a two-instance method
\* of one of them with that same set as the other operand.
SelfInit ==
    /\ set \in [Bufs -> SUBSET Items]
    /\ heap = <<>>
    /\ buf = [b \in Bufs |-> NilBuf]
    /\ origin = "SyncSet"
    /\ mu = [b \in Bufs |-> NewMutex]
    /\ gr = [g \in Goroutines |-> Idle]
    /\ fifo = [b \in Bufs |-> <<>>]
    /\ snap = 0 /\ next = 1 /\ calls = 0 /\ panicked = FALSE
    /\ last = NoReturn /\ par = <<>>

\* The next step of the call g is in; the method is IsSubsetOf or Equals.
SelfStep(g) ==
    \/ LockSecond(g)
    \/ ReadFirst(g)
    \/ \E op \in Predicates : ReadSecond(g, op)

SelfNext ==
    \/ \E g \in Workers(origin), a \in Bufs : CallSelf(g, a)
    \/ \E g \in Goroutines : SelfStep(g)

\* The Go scheduler runs a goroutine that is not blocked.
FairSpecSelf ==
    /\ SelfInit /\ [][SelfNext]_vars
    /\ WF_gr(\E g \in Goroutines : SelfStep(g))

\* ------------------------------------------------------------------- C26
\* An s.IsSubsetOf(s) that returns in this step returns true.
C26_Step ==
    (last' # NoReturn /\ last'.op = "IsSubsetOf" /\ last'.a = last'.b) => last'.ok

\* Every call in progress returns.
C26_Returns == \A g \in Goroutines : gr[g].pc # "idle" ~> gr[g].pc = "idle"

\* C26: for any SyncSet s, s.IsSubsetOf(s) returns, and returns true, also
\* when several goroutines evaluate it at the same time on the same set.
C26_Reflexive == [][C26_Step]_vars /\ C26_Returns

\* Two goroutines are both in calls on the first set, a non-empty one,
\* when a third returns true from s.IsSubsetOf(s) on it.
C26_Witness ==
    /\ last # NoReturn /\ last.op = "IsSubsetOf" /\ last.a = 1 /\ last.b = 1 /\ last.ok
    /\ set[1] # {}
    /\ Cardinality({g \in Goroutines : gr[g].pc # "idle" /\ gr[g].a = 1 /\ gr[g].b = 1}) >= 2

\* ======================================================================
\* Part 5: the parallel slice functions (functions/slices)
\* ======================================================================
MaxInput == 3
MaxParVal == 2
MaxWorkers == 3
GoMaxProcs == 2

\* The elements of the input slices; 0 is the zero value of a result.
ParVals == 1..MaxParVal

\* The input slices.
Inputs == UNION {[1..n -> ParVals] : n \in 0..MaxInput}

\* The optional workers argument (workers ...int): no or one value.
WorkerArgs == {<<>>} \cup {<<w>> : w \in (-1)..MaxWorkers}

ParFns == {"ParallelMap", "ParallelFilter", "ParallelForEach"}

\* The functions f a caller passes: a transform for ParallelMap, a
\* predicate for ParallelFilter; what ParallelForEach's f does is recorded
\* in par.got.
Fs(fn) ==
    IF fn = "ParallelMap" THEN [ParVals -> ParVals]
    ELSE IF fn = "ParallelFilter" THEN [ParVals -> BOOLEAN]
    ELSE {<<>>}

\* A slice value: nil or not, and its elements.
Slice(isNil, elems) == [nil |-> isNil, elems |-> elems]

\* Map: result := make([]R, len(s)); result[i] = f(v).
Map(s, f) == Slice(FALSE, [i \in 1..Len(s) |-> f[s[i]]])

\* Filter: var result S; for each element in order, append it if f is true.
RECURSIVE FilterFrom(_, _, _, _)
FilterFrom(s, f, i, result) ==
    IF i > Len(s) THEN result
    ELSE FilterFrom(s, f, i + 1,
                    IF f[s[i]] THEN Slice(FALSE, Append(result.elems, s[i])) ELSE result)

Filter(s, f) == FilterFrom(s, f, 1, Slice(TRUE, <<>>))

\* workerCount: workers[0] if it is given and positive, else GOMAXPROCS.
WorkerCountAsGiven(workers) == IF Len(workers) > 0 THEN workers[1] ELSE GoMaxProcs

WorkerCount(workers) ==
    IF Len(workers) > 0 /\ workers[1] > 0 THEN workers[1] ELSE GoMaxProcs

\* A receive from a channel takes the value at its front out of it.
ReceiveKeeps(ch) == [val |-> Head(ch), rest |-> ch]

Receive(ch) == [val |-> Head(ch), rest |-> Tail(ch)]

\* items[result.index] = result.value (Go indexes from 0).
Place(items, r) == [items EXCEPT ![r.index + 1] = r.value]

\* The second pass of ParallelFilter: var items S; for each index in
\* order, append s[index] if temp[index].
RECURSIVE CompactFrom(_, _, _, _)
CompactFrom(s, temp, i, items) ==
    IF i > Len(temp) THEN items
    ELSE CompactFrom(s, temp, i + 1,
                     IF temp[i] THEN Slice(FALSE, Append(items.elems, s[i])) ELSE items)

CompactAll(s, temp) == Slice(FALSE, s)

Compact(s, temp) == CompactFrom(s, temp, 1, Slice(TRUE, <<>>))

\* wg.Wait() returns when the counter is zero.
WaitDoneAtOnce(p) == TRUE

WaitDone(p) == p.wg = 0

\* No call has been made.
NoCall ==
    [pc |-> "idle", fn |-> "", s |-> <<>>, f |-> <<>>, workers |-> <<>>, wc |-> 0,
     jobs |-> <<>>, sent |-> 0, jclosed |-> FALSE, w |-> <<>>, wg |-> 0,
     results |-> <<>>, rclosed |-> FALSE, items |-> <<>>, out |-> Slice(TRUE, <<>>),
     took |-> <<>>, got |-> <<>>, order |-> <<>>, failed |-> FALSE]

ParInit ==
    /\ par = NoCall
    /\ heap = <<>> /\ buf = [b \in Bufs |-> NilBuf] /\ set = <<>>
    /\ mu = <<>> /\ gr = <<>> /\ fifo = <<>>
    /\ snap = 0 /\ next = 0 /\ calls = 0 /\ panicked = FALSE
    /\ origin = "slices" /\ last = NoReturn

\* What a call on an empty slice returns at once.
EmptyResult(fn) == IF fn = "ParallelMap" THEN Slice(FALSE, <<>>) ELSE Slice(TRUE, <<>>)

\* The caller calls fn(s, f, workers...).  On an empty slice it returns at
\* once.  Otherwise the channels are made and the goroutines started: the
\* producer of the indices, workerCount workers (wg.Add(1) for each) and,
\* except in ParallelForEach, the goroutine that closes results; the
\* caller goes on to collect the results or to wg.Wait().
\*   pc      where the caller is: "collect", "wait" or "returned"
\*   jobs    the indices in the jobs channel; sent of them have been sent
\*   w       worker -> "recv" (at the receive), "run" (has an index, f not
\*           yet called) or "done", and its index
\*   results the results channel;  items  the caller's slice of results
\*   took    index -> how many times a worker received it
\*   got     index -> the elements f was called with for it, in order
\*   order   the indices in the order the caller took their results
\*   failed  a call of f has panicked
ParallelCall(fn, s, f, workers) ==
    /\ par.pc = "idle"
    /\ LET n == Len(s)
           wc == WorkerCount(workers)
       IN  IF n = 0
           THEN /\ par' = [NoCall EXCEPT !.pc = "returned", !.fn = fn, !.f = f,
                                         !.workers = workers, !.out = EmptyResult(fn)]
                /\ last' = Returned(fn, 0, 0, 0, EmptyResult(fn), TRUE)
           ELSE /\ par' = [NoCall EXCEPT
                              !.pc = IF fn = "ParallelForEach" THEN "wait" ELSE "collect",
                              !.fn = fn, !.s = s, !.f = f, !.workers = workers, !.wc = wc,
                              !.w = [k \in 1..wc |-> [pc |-> "recv", index |-> 0]],
                              !.wg = Cardinality(1..wc),
                              !.items = IF fn = "ParallelMap" THEN [i \in 1..n |-> 0]
                                        ELSE IF fn = "ParallelFilter"
                                             THEN [i \in 1..n |-> FALSE] ELSE <<>>,
                              !.took = [i \in 1..n |-> 0],
                              !.got = [i \in 1..n |-> <<>>]]
                /\ last' = NoReturn
    /\ UNCHANGED <<heap, buf, snap, fifo, next, panicked, origin, calls, mu, gr, set>>

\* A goroutine of the call takes a step that changes par only.
ParStep(p) ==
    /\ par' = p
    /\ last' = NoReturn
    /\ UNCHANGED <<heap, buf, snap, fifo, next, panicked, origin, calls, mu, gr, set>>

\* The goroutines of the call run until a panic ends the program.
Started == par.pc # "idle" /\ Len(par.s) > 0 /\ ~panicked

\* The producer: jobs <- i (the channel has room for every index).
SendJob ==
    /\ Started /\ par.sent < Len(par.s)
    /\ ParStep([par EXCEPT !.jobs = Append(@, par.sent), !.sent = @ + 1])

\* The producer: close(jobs).
CloseJobs ==
    /\ Started /\ par.sent = Len(par.s) /\ ~par.jclosed
    /\ ParStep([par EXCEPT !.jclosed = TRUE])

\* Worker k receives an index from jobs.
TakeJob(k) ==
    /\ Started /\ k \in DOMAIN par.w
    /\ par.w[k].pc = "recv" /\ par.jobs # <<>>
    /\ LET rcv == Receive(par.jobs)
       IN  ParStep([par EXCEPT !.jobs = rcv.rest,
                               !.w[k] = [pc |-> "run", index |-> rcv.val],
                               !.took[rcv.val + 1] = @ + 1])

\* Worker k calls f for its index; in ParallelMap and ParallelFilter it
\* sends the result (results has room for every index).
RunJob(k) ==
    /\ Started /\ k \in DOMAIN par.w
    /\ par.w[k].pc = "run"
    /\ LET index == par.w[k].index
           v == par.s[index + 1]
       IN  ParStep([par EXCEPT
                       !.w[k] = [pc |-> "recv", index |-> 0],
                       !.got[index + 1] = Append(@, v),
                       !.results = IF par.fn = "ParallelForEach" THEN @
                                   ELSE Append(@, [index |-> index, value |-> par.f[v]])])

\* f panics in worker k and is recovered there: the worker goes on to
\* its next index.
PanicJobRecovered(k) ==
    /\ Started /\ k \in DOMAIN par.w
    /\ par.w[k].pc = "run"
    /\ ParStep([par EXCEPT !.w[k] = [pc |-> "recv", index |-> 0], !.failed = TRUE])

\* f panics in worker k.  Nothing recovers a panic in a goroutine: it ends
\* the program, and with it the caller and every other goroutine.
PanicJob(k) ==
    /\ Started /\ k \in DOMAIN par.w
    /\ par.w[k].pc = "run"
    /\ par' = [par EXCEPT !.failed = TRUE]
    /\ panicked' = TRUE
    /\ last' = NoReturn
    /\ UNCHANGED <<heap, buf, snap, fifo, next, origin, calls, mu, gr, set>>

\* A worker ends without wg.Done().
ExitWorkerNoDone(k) ==
    /\ Started /\ k \in DOMAIN par.w
    /\ par.w[k].pc = "recv" /\ par.jobs = <<>> /\ par.jclosed
    /\ ParStep([par EXCEPT !.w[k].pc = "done"])

\* Worker k finds jobs closed and empty: its loop ends, wg.Done() runs.
ExitWorker(k) ==
    /\ Started /\ k \in DOMAIN par.w
    /\ par.w[k].pc = "recv" /\ par.jobs = <<>> /\ par.jclosed
    /\ ParStep([par EXCEPT !.w[k].pc = "done", !.wg = @ - 1])

\* The closing goroutine: wg.Wait(); close(results).
CloseResults ==
    /\ Started /\ par.fn # "ParallelForEach"
    /\ par.wg = 0 /\ ~par.rclosed
    /\ ParStep([par EXCEPT !.rclosed = TRUE])

\* The caller receives a result and stores it at its index.
CollectResult ==
    /\ ~panicked
    /\ par.pc = "collect" /\ par.results # <<>>
    /\ LET rcv == Receive(par.results)
       IN  ParStep([par EXCEPT !.results = rcv.rest,
                               !.items = Place(@, rcv.val),
                               !.order = Append(@, rcv.val.index)])

\* The caller finds results closed and empty and returns: ParallelMap its
\* items, ParallelFilter the elements its second pass keeps.
ReturnCollected ==
    /\ ~panicked
    /\ par.pc = "collect" /\ par.results = <<>> /\ par.rclosed
    /\ LET out == IF par.fn = "ParallelMap" THEN Slice(FALSE, par.items)
                  ELSE Compact(par.s, par.items)
       IN  /\ par' = [par EXCEPT !.pc = "returned", !.out = out]
           /\ last' = Returned(par.fn, 0, 0, 0, out, TRUE)
    /\ UNCHANGED <<heap, buf, snap, fifo, next, panicked, origin, calls, mu, gr, set>>

\* ParallelForEach: wg.Wait() returns and so does the caller.
ReturnWaited ==
    /\ ~panicked
    /\ par.pc = "wait" /\ WaitDone(par)
    /\ par' = [par EXCEPT !.pc = "returned"]
    /\ last' = Returned(par.fn, 0, 0, 0, par.out, TRUE)
    /\ UNCHANGED <<heap, buf, snap, fifo, next, panicked, origin, calls, mu, gr, set>>

\* A step of the caller or of one of the goroutines in which no f panics.
ParRun ==
    \/ SendJob
    \/ CloseJobs
    \/ \E k \in 1..MaxWorkers : TakeJob(k)
    \/ \E k \in 1..MaxWorkers : RunJob(k)
    \/ \E k \in 1..MaxWorkers : ExitWorker(k)
    \/ CloseResults
    \/ CollectResult
    \/ ReturnCollected
    \/ ReturnWaited

ParNext ==
    \/ \E fn \in ParFns, s \in Inputs, workers \in WorkerArgs :
           \E f \in Fs(fn) : ParallelCall(fn, s, f, workers)
    \/ ParRun
    \/ \E k \in 1..MaxWorkers : PanicJob(k)

SpecParallel == ParInit /\ [][ParNext]_vars

\* The Go scheduler runs a goroutine that is not blocked: while the caller
\* or a goroutine of the call can take a step, one does.  Whether f panics
\* is left open.
FairSpecParallel == SpecParallel /\ WF_par(ParRun)

\* ------------------------------------------------------------------- C31
InCall == par.pc \in {"collect", "wait"}

\* C31: a call of ParallelMap, ParallelFilter or ParallelForEach on a
\* non-empty slice, with any number of workers (more than elements too),
\* returns unless a call of f panics: no goroutine of it blocks forever.
C31_Returns == InCall ~> (par.pc = "returned" \/ panicked)

\* A call with three workers on one element has returned.
C31_Witness ==
    /\ par.pc = "returned" /\ Len(par.s) = 1 /\ par.wc = 3
    /\ \A k \in 1..3 : par.w[k].pc = "done"

\* ------------------------------------------------------------------- C27
ReturnedFrom(fn) == par.pc = "returned" /\ par.fn = fn

\* C27: ParallelMap returns a slice of the input's length whose element i
\* is f(input[i]), the result of the sequential Map, whether the workers
\* argument is positive, omitted or non-positive and in whatever order the
\* results arrive.
C27_ParallelMap ==
    ReturnedFrom("ParallelMap") =>
        /\ Len(par.out.elems) = Len(par.s)
        /\ \A i \in 1..Len(par.s) : par.out.elems[i] = par.f[par.s[i]]
        /\ par.out = Map(par.s, par.f)

\* ParallelMap of <<1, 2, 2>> with an f that swaps 1 and 2 and a
\* non-positive workers argument has returned; the results arrived in the
\* order 1, 2, 0.
C27_Witness ==
    /\ ReturnedFrom("ParallelMap")
    /\ par.s = <<1, 2, 2>> /\ par.f[1] = 2 /\ par.f[2] = 1
    /\ Len(par.workers) = 1 /\ par.workers[1] <= 0
    /\ par.order = <<1, 2, 0>>
    /\ par.out.elems = <<2, 1, 1>>

\* ------------------------------------------------------------------- C28
\* C28: in ParallelMap, ParallelFilter and ParallelForEach no index is
\* received from jobs more than once and f is called for an index only by
\* the worker that received it, with the element at that index; when the
\* function has returned, every index was received exactly once and f was
\* called exactly once for it.
C28_ExactlyOnce ==
    /\ \A i \in DOMAIN par.took :
           /\ par.took[i] <= 1
           /\ Len(par.got[i]) <= par.took[i]
           /\ \A j \in 1..Len(par.got[i]) : par.got[i][j] = par.s[i]
    /\ par.pc = "returned" =>
           \A i \in 1..Len(par.s) : par.took[i] = 1 /\ par.got[i] = <<par.s[i]>>

\* A call with three workers on a slice of three elements has returned.
C28_Witness ==
    /\ par.pc = "returned" /\ Len(par.s) = 3 /\ par.wc = 3
    /\ \A i \in 1..3 : par.took[i] = 1

\* ------------------------------------------------------------------- C29
\* The calls of f that have completed.
Completed == Cardinality({i \in DOMAIN par.got : par.got[i] # <<>>})

\* C29: when ParallelForEach has returned, f has completed for every one
\* of the N elements and no worker is still to call f.
C29_Barrier ==
    ReturnedFrom("ParallelForEach") =>
        /\ Completed = Len(par.s)
        /\ \A k \in DOMAIN par.w : par.w[k].pc = "done"

\* ParallelForEach on three elements with at least two workers has returned.
C29_Witness ==
    /\ ReturnedFrom("ParallelForEach") /\ Len(par.s) = 3 /\ par.wc >= 2
    /\ Completed = 3

\* ------------------------------------------------------------------- C30
\* The elements of s that satisfy f, in the order of s.
Kept(s, f) == LET Test(x) == f[x] IN SelectSeq(s, Test)

\* C30: ParallelFilter returns exactly the elements for which f is true,
\* in increasing index order: the result of the sequential Filter.
C30_ParallelFilter ==
    ReturnedFrom("ParallelFilter") =>
        /\ par.out.elems = Kept(par.s, par.f)
        /\ par.out = Filter(par.s, par.f)

\* ParallelFilter of <<1, 2, 1>> with an f true of 1 only has returned
\* <<1, 1>>; the result for index 2 arrived first.
C30_Witness ==
    /\ ReturnedFrom("ParallelFilter")
    /\ par.s = <<1, 2, 1>> /\ par.f[1] /\ ~par.f[2]
    /\ par.order[1] = 2
    /\ par.out.elems = <<1, 1>>

ResizeKeeps(h, r, newCap) ==
    LET res == resize(h, r, newCap)
    IN  /\ ~res.panic
        /\ res.r.data \notin DOMAIN h
        /\ Len(res.h[res.r.data]) = newCap
        /\ res.r.size = r.size /\ res.r.head = 0 /\ res.r.tail = r.size
        /\ res.r.capacity = newCap
        /\ \A i \in 1..r.size : res.h[res.r.data][i] = Live(h, r)[i]
        /\ Live(res.h, res.r) = Live(h, r)
        /\ \A a \in DOMAIN h : res.h[a] = h[a]

\* Buffer r's live elements wrap around the end of its storage.
Wrapped(r) == r.head + r.size > r.capacity

\* C33: on every buffer a run reaches, resize(newCap) with newCap >= size
\* keeps the size and the order of the live elements, puts them into slots
\* 0..size-1 of new storage and sets head = 0, tail = size and capacity =
\* newCap, when it grows, when it shrinks and when the source is wrapped.
C33_Resize ==
    \A b \in Bufs :
        (Exists(b) /\ ~panicked) =>
            \A newCap \in buf[b].size..(2 * buf[b].capacity) :
                ResizeKeeps(heap, buf[b], newCap)

\* The buffer as Dequeue has it when it tests for a shrink.
AfterRemoval(r) == [r EXCEPT !.head = (r.head + 1) % r.capacity, !.size = r.size - 1]

\* A buffer made by New has eight slots and three elements from slot 6 on:
\* its next Dequeue shrinks it, and resize then reads a wrapped source.
C33_Witness ==
    /\ origin = "New" /\ MayCall(1)
    /\ buf[1].capacity = 8 /\ buf[1].head = 6 /\ buf[1].size = 3
    /\ Wrapped(AfterRemoval(buf[1])) /\ NeedsShrink(AfterRemoval(buf[1]))
    /\ ResizeKeeps(heap, AfterRemoval(buf[1]), 4)
    /\ DequeueOp(heap, buf[1]).r.capacity = 4

\* ------------------------------------------------------------------- C34
\* C34: in every state of a buffer made by New, FromSlice or Clone and
\* changed by Enqueue and Dequeue, 0 <= tail < capacity and
\* tail = (head + size) mod capacity.
C34_TailInRange ==
    \A b \in Bufs :
        (Exists(b) /\ ~panicked) =>
            /\ 0 <= buf[b].tail /\ buf[b].tail < buf[b].capacity
            /\ buf[b].tail = (buf[b].head + buf[b].size) % buf[b].capacity

\* ------------------------------------------------------------------- C35
\* Most calls of a sequence applied to a buffer and to its clone.
MaxObserved == 2

\* The sequences of calls: "Dequeue" or "Enqueue" of one value.
CallSeqs == UNION {[1..n -> {"Dequeue", "Enqueue"}] : n \in 0..MaxObserved}

\* What the caller sees of the calls ops made one after the other on
\* buffer r: of each call its results, whether it panicked, and Len, Peek
\* and ToSlice after it; a panic ends the sequence.
RECURSIVE Observed(_, _, _)
Observed(h, r, ops) ==
    IF ops = <<>> THEN <<>>
    ELSE LET res == IF Head(ops) = "Dequeue" THEN DequeueOp(h, r)
                    ELSE EnqueueOp(h, r, <<MaxVal + 1>>) @@ [val |-> 0, ok |-> TRUE]
             seen == IF res.panic THEN [panic |-> TRUE]
                     ELSE [panic |-> FALSE, val |-> res.val, ok |-> res.ok,
                           len |-> LenOf(res.r), peek |-> PeekOp(res.h, res.r),
                           slice |-> SliceOf(res.h, res.r)]
         IN  IF res.panic THEN <<seen>>
             ELSE <<seen>> \o Observed(res.h, res.r, Tail(ops))

\* C35: a clone behaves as its source: whatever the state of the buffer
\* when Clone was called, every sequence of Enqueue and Dequeue calls gives
\* the same results, Len, Peek and ToSlice on the clone as on the buffer.
C35_CloneEquivalent ==
    (last.op = "Clone" /\ last.ok /\ ~panicked) =>
        \A ops \in CallSeqs :
            Observed(heap, buf[2], ops) = Observed(heap, buf[last.b], ops)

\* ------------------ goroutines calling q.Equals(q) or s.Method(s) as well
\* Three goroutines on two SyncQueues or two SyncSets: each calls a
\* method that writes, a two-instance method on the two instances, or a
\* two-instance method with its receiver as the other operand.
SelfCallInit == SyncInit /\ origin \in {"SyncQueue", "SyncSet"}

SelfCallStep(g) == SetRaceStep(g) \/ QueueRaceStep(g)

SelfCallNext ==
    \/ \E g \in Workers(origin), a \in Bufs : CallLock(g, a, "W")
    \/ \E g \in Workers(origin), a, b \in Bufs : CallBinary(g, a, b)
    \/ \E g \in Workers(origin), a \in Bufs : CallSelf(g, a)
    \/ \E g \in Goroutines : SelfCallStep(g)

\* The Go scheduler runs a goroutine that is not blocked.
FairSpecSelfCall ==
    /\ SelfCallInit /\ [][SelfCallNext]_vars
    /\ WF_gr(\E g \in Goroutines : SelfCallStep(g))

\* ------------------------------------------------------------------- C36
\* g is in a call whose two operands are the same instance.
InSelfCall(g) == gr[g].pc # "idle" /\ gr[g].b # 0 /\ gr[g].a = gr[g].b

\* C36: q.Equals(q) on a SyncQueue returns, and returns true.
C36_SelfEquals ==
    /\ \A g \in Goroutines :
           (origin = "SyncQueue" /\ InSelfCall(g)) ~> gr[g].pc = "idle"
    /\ [][(origin = "SyncQueue" /\ last' # NoReturn /\ last'.op = "Equals"
           /\ last'.a = last'.b) => last'.ok]_vars

\* ------------------------------------------------------------------- C37
\* C37: a two-instance SyncSet method called with its receiver as the other
\* operand returns, also when another goroutine calls Push or Remove on
\* that set in the meantime.
C37_SelfReturns ==
    \A g \in Goroutines :
        (origin = "SyncSet" /\ InSelfCall(g)) ~> gr[g].pc = "idle"

\* ------------------------------------------------------------------- C38
\* The values are enqueued in increasing order, one by one, so what a
\* buffer holds at any one instant is a run of consecutive values that
\* were enqueued.
IsRun(s) ==
    /\ \A i \in 1..Len(s) : s[i] \in 1..(next - 1)
    /\ \A i \in 1..(Len(s) - 1) : s[i + 1] = s[i] + 1

\* A copy that returns in this step: it holds what the instance held at
\* one instant of the call.  A copy made under the lock holds what the
\* instance holds now; one made without it holds at least a run of
\* consecutive values, whichever instant it is of.
C38_Step ==
    (last' # NoReturn /\ last'.op = "Clone") =>
        CASE origin = "SyncSet" -> last'.val = set[last'.a]
          [] origin = "SyncQueue" -> last'.ok /\ last'.val = fifo[last'.a]
          [] OTHER -> last'.ok /\ IsRun(last'.val)

\* C38: a copy taken from a concurrent instance while other goroutines
\* change it (FromSyncRingBuffer, FromSyncQueue, Clone, FromSyncSet) holds
\* the contents the instance had at one single instant between the call
\* and its return, never a mixture of two states.
C38_Snapshot == [][C38_Step]_vars

\* ------------------------------------------------- multi-value Enqueue
\* The most values one Enqueue call is given.
MaxArgs == 2

\* The write loop of rb.buffer.Enqueue(values...), one iteration per step,
\* under the lock SyncRingBuffer.Enqueue / SyncQueue.Enqueue took.

\* g, holding the lock of Enqueue, enters rb.buffer.Enqueue with k fresh
\* values: the buffer grows if size + k exceeds its capacity.
EnqueueGrow(g, k) ==
    /\ ~panicked /\ IsBufferType
    /\ gr[g].pc = "locked"
    /\ "Enqueue" \in Methods(origin, gr[g].mode)
    /\ Granted(mu[gr[g].a], g, gr[g].mode)
    /\ LET a == gr[g].a
           r == buf[a]
           grown == IF NeedsGrow(r, k)
                    THEN resize(heap, r, GrowCap(r.capacity, r.size + k))
                    ELSE [h |-> heap, r |-> r, panic |-> FALSE]
           bs == [buf EXCEPT ![a] = grown.r]
           gs == [gr EXCEPT ![g].pc = "batch", ![g].op = "Enqueue",
                            ![g].loc = [vals |-> Fresh(next, k), done |-> 0]]
       IN  /\ gr' = gs
           /\ buf' = bs
           /\ heap' = Collect(grown.h, SyncRoots(bs, gs))
           /\ panicked' = grown.panic
    /\ next' = next + k
    /\ last' = NoReturn
    /\ UNCHANGED <<snap, fifo, origin, calls, mu, set, par>>

\* One iteration of the write loop: the next value goes to data[tail], and
\* tail and size move on.
EnqueueWrite(g) ==
    /\ ~panicked /\ IsBufferType
    /\ gr[g].pc = "batch"
    /\ gr[g].loc.done < Len(gr[g].loc.vals)
    /\ LET a == gr[g].a
           v == gr[g].loc.vals[gr[g].loc.done + 1]
           res == EnqueueLoop(heap, buf[a], <<v>>)
       IN  /\ heap' = res.h
           /\ buf' = [buf EXCEPT ![a] = res.r]
           /\ panicked' = res.panic
    /\ gr' = [gr EXCEPT ![g].loc.done = @ + 1]
    /\ last' = NoReturn
    /\ UNCHANGED <<snap, fifo, next, origin, calls, mu, set, par>>

\* The loop is over: the deferred Unlock runs and Enqueue returns.  fifo
\* takes the values of the call, in argument order.
EnqueueReturn(g) ==
    /\ ~panicked /\ IsBufferType
    /\ gr[g].pc = "batch"
    /\ gr[g].loc.done = Len(gr[g].loc.vals)
    /\ gr' = [gr EXCEPT ![g] = Idle]
    /\ mu' = Unlocked(gr[g], g)
    /\ fifo' = [fifo EXCEPT ![gr[g].a] = @ \o gr[g].loc.vals]
    /\ last' = Returned("Enqueue", g, gr[g].a, 0, Len(gr[g].loc.vals), TRUE)
    /\ UNCHANGED <<heap, buf, snap, next, panicked, origin, calls, set, par>>

\* The calls that run beside a multi-value Enqueue.
Observers == {"Dequeue", "Len", "ToSlice"}

BatchNext ==
    \/ \E g \in Goroutines, a \in Bufs, mode \in {"R", "W"} : CallLock(g, a, mode)
    \/ \E g \in Goroutines, k \in 1..MaxArgs : EnqueueGrow(g, k)
    \/ \E g \in Goroutines : EnqueueWrite(g)
    \/ \E g \in Goroutines : EnqueueReturn(g)
    \/ \E g \in Goroutines, op \in Observers : BufferBegin(g, op)
    \/ \E g \in Goroutines : BufferEnd(g)

\* ring.NewSync / queue.NewSync: a SyncRingBuffer, or two SyncQueues.
BatchInit == SyncInit /\ origin \in {"SyncRingBuffer", "SyncQueue"}

SpecBatch == BatchInit /\ [][BatchNext]_vars

\* ------------------------------------------------------------------- C39
\* The goroutines inside the write loop of an Enqueue on instance a.
Writers(a) == {g \in Goroutines : gr[g].pc = "batch" /\ gr[g].a = a}

\* The values the Enqueue calls in progress on a have written so far.
Written(a) ==
    IF Writers(a) = {} THEN <<>>
    ELSE LET g == CHOOSE x \in Writers(a) : TRUE
         IN  SubSeq(gr[g].loc.vals, 1, gr[g].loc.done)

\* The queue holds the values of the calls that returned, each call's
\* values side by side in argument order, then the values one call in
\* progress has written.
C39_Contents ==
    \A a \in Insts :
        /\ Cardinality(Writers(a)) <= 1
        /\ Live(heap, buf[a]) = fifo[a] \o Written(a)

\* What Dequeue, Len and ToSlice return is read from a queue of whole
\* calls' values.
C39_Observes ==
    last' # NoReturn /\ last'.op \in Observers =>
        LET q == fifo[last'.a]
        IN  CASE last'.op = "Len" -> last'.val = Len(q)
              [] last'.op = "ToSlice" -> last'.ok /\ last'.val = q
              [] last'.op = "Dequeue" ->
                    /\ last'.ok = (q # <<>>)
                    /\ (q # <<>> => last'.val = Head(q))

\* C39: a multi-value Enqueue on a SyncRingBuffer or SyncQueue is atomic:
\* its values take consecutive positions of the queue in argument order,
\* never interleaved with those of a concurrent Enqueue, and no concurrent
\* Dequeue, Len or ToSlice observes only a part of them.
C39_Atomic == []C39_Contents /\ [][C39_Observes]_vars

\* An Enqueue of two values has written the first behind the values of an
\* earlier call, while a Len and another call on the same instance wait for
\* its lock.
C39_Witness ==
    \E g \in Goroutines, w \in Goroutines :
        /\ gr[g].pc = "batch"
        /\ Len(gr[g].loc.vals) = 2 /\ gr[g].loc.done = 1
        /\ Len(fifo[gr[g].a]) = 2
        /\ gr[w].pc = "locked" /\ gr[w].a = gr[g].a /\ gr[w].mode = "R"
        /\ ~Granted(mu[gr[w].a], w, "R")


\* ------------------------------------------------------------------- C40
\* The call before this step was an Enqueue on buffer 1 that grew it.
Grew == last.op = "Enqueue" /\ last.b = 1 /\ buf[1].capacity > last.oldCap

\* The call before this step was a Dequeue on buffer 1 that shrank it.
Shrank == last.op = "Dequeue" /\ last.b = 1 /\ buf[1].capacity < last.oldCap

\* A Dequeue right after a growing Enqueue, and an Enqueue of one value
\* right after a shrinking Dequeue, leave the capacity as it is.
C40_Step ==
    origin = "New" /\ last' # last /\ last'.b = 1 =>
        /\ (Grew /\ last'.op = "Dequeue" =>
                /\ last'.ok /\ ~panicked'
                /\ buf'[1].capacity = buf[1].capacity)
        /\ (Shrank /\ last'.op = "Enqueue" /\ last'.n = 1 =>
                /\ last'.ok /\ ~panicked'
                /\ buf'[1].capacity = buf[1].capacity)

\* C40: on a buffer created by New, a Dequeue that immediately follows an
\* Enqueue which grew the capacity never shrinks it, and a single-value
\* Enqueue that immediately follows a Dequeue which shrank the capacity
\* never grows it.
C40_Hysteresis == [][C40_Step]_vars

\* A Dequeue has just halved the capacity of a buffer made by New, and an
\* Enqueue of one more value, which can follow, fills the buffer exactly.
C40_Witness ==
    /\ origin = "New" /\ Shrank
    /\ buf[1].size + 1 = buf[1].capacity
    /\ MayCall(1) /\ next <= MaxVal

====
